---- MODULE Spec2Model ----
(***************************************************************************)
(* Object store, base object model and command handler of the dott MUD    *)
(* server: src/server/objects/in_memory_store.py,                          *)
(* src/game/parents/base_objects/base.py,                                  *)
(* src/daemons/server/commands/handler.py, src/game/commands/staff.py and  *)
(* src/server/protocols/proxyamp.py.                                       *)
(***************************************************************************)
EXTENDS Integers, Sequences, FiniteSets, TLC

\* Highest dbref the store hands out in a run (create_object is not called
\* once next_dbref has passed it).
MaxId == 5

\* Number of proxy requests handled in one run.
MaxOps == 3

VARIABLES
    issued,       \* the ids create_object has returned, oldest first
    objects,      \* InMemoryObjectStore._objects: id -> live instance
    db,           \* InMemoryObjectStore._db: id -> persisted document
    next_dbref,   \* InMemoryObjectStore.__next_dbref
    order,        \* iteration order of the _objects dict
    local_command_table,        \* BaseObject.local_command_table, per class
    local_admin_command_table,  \* BaseObject.local_admin_command_table
    trace,        \* what the last request did, in program order
    last,         \* the last request and how it ended
    nops,         \* requests handled so far
    sessions,     \* the proxy's sessions: id -> number controlling the object
    hooks,        \* the session hooks the objects have run, oldest first
    factory,      \* the proxy's AmpClientFactory: connection state and delay
    global_cmd_table  \* MudService.global_cmd_table: the verbs it defines

vars == <<issued, objects, db, next_dbref, order, local_command_table,
          local_admin_command_table, trace, last, nops, sessions, hooks,
          factory, global_cmd_table>>

----------------------------------------------------------------------------
\* Strings of the model.

\* '#%s' % id, and back (desc[1:]).
Refs == <<"#1", "#2", "#3", "#4", "#5", "#6", "#7", "#8", "#9">>

IsRef(s) == \E i \in 1..Len(Refs) : Refs[i] = s

IdOfRef(s) == CHOOSE i \in 1..Len(Refs) : Refs[i] = s

RefOf(id) == Refs[id]

\* str.lower() on the words the model uses.
Lower(s) ==
    CASE s = "North" -> "north"
      [] s = "NORTH" -> "north"
      [] s = "Look" -> "look"
      [] s = "ME" -> "me"
      [] s = "Here" -> "here"
      [] s = "@TEL" -> "@tel"
      [] s = "Door" -> "door"
      [] OTHER -> s

\* ' '.join(tokens)
RECURSIVE Join(_)
Join(ts) ==
    IF Len(ts) = 0 THEN ""
    ELSE IF Len(ts) = 1 THEN ts[1]
    ELSE ts[1] \o " " \o Join(Tail(ts))

RECURSIVE Flatten(_)
Flatten(ws) == IF Len(ws) = 0 THEN <<>> ELSE Head(ws) \o Flatten(Tail(ws))

\* Position of the first "=" token, 0 when there is none.
FirstEq(ts) ==
    IF \E i \in 1..Len(ts) : ts[i] = "="
    THEN CHOOSE i \in 1..Len(ts) : ts[i] = "=" /\ \A j \in 1..(i-1) : ts[j] # "="
    ELSE 0

\* str.split('=', 1): one or two members.
SplitEq(ts) ==
    LET i == FirstEq(ts)
    IN  IF i = 0 THEN <<ts>>
        ELSE <<SubSeq(ts, 1, i - 1), SubSeq(ts, i + 1, Len(ts))>>

\* str.split(':', 1): one or two members.
SplitColon(ts) ==
    IF \A i \in 1..Len(ts) : ts[i] # ":" THEN <<ts>>
    ELSE LET i == CHOOSE i \in 1..Len(ts) :
                      ts[i] = ":" /\ \A j \in 1..(i-1) : ts[j] # ":"
         IN  <<SubSeq(ts, 1, i - 1), SubSeq(ts, i + 1, Len(ts))>>

\* fuzz.partial_ratio(desc, name) on the strings the model uses (0..100).
PartialRatio(desc, name) ==
    CASE desc = name /\ desc # "" -> 100
      [] desc = "door" /\ name = "Door" -> 75
      [] desc = "Do" /\ name = "Door" -> 100
      [] desc = "Do" /\ name = "door" -> 50
      [] OTHER -> 0

----------------------------------------------------------------------------
\* Parent loader and the classes it resolves to.

RoomParent == "room"
ThingParent == "thing"
ExitParent == "exit"
PlayerParent == "player"
AdminParent == "admin"

ValidParents == {RoomParent, ThingParent, ExitParent, PlayerParent, AdminParent}

load_parent_ok(parent_path) == parent_path \in ValidParents

\* CmdParent._substitute_aliased_parent
substitute_aliased_parent(parent_str) ==
    LET l == Lower(parent_str)
    IN  IF l \in ValidParents THEN l ELSE parent_str

base_type(o) == IF o.cls = AdminParent THEN "player" ELSE o.cls

is_admin(o) == o.cls = AdminParent

IsRoomObject(o) == o.cls = RoomParent

IsExitObject(o) == o.cls = ExitParent

----------------------------------------------------------------------------
\* The store as a value threaded through one request.

Odata(o) ==
    [parent |-> o.parent, name |-> o.name, aliases |-> o.aliases,
     location_id |-> o.location_id, zone_id |-> o.zone_id,
     destination_id |-> o.destination_id, description |-> o.description,
     attributes |-> o.attributes]

\* parent(self._mud_service, **doc): the instance's class is the one the
\* document's parent resolves to; internal_description is an attribute of
\* the instance and no key of the document.
Instantiate_without_attributes(doc) ==
    [cls |-> doc.parent, parent |-> doc.parent, name |-> doc.name,
     aliases |-> doc.aliases, location_id |-> doc.location_id,
     zone_id |-> doc.zone_id, destination_id |-> doc.destination_id,
     description |-> doc.description, internal_description |-> "",
     attributes |-> <<>>]

Instantiate(doc) ==
    [cls |-> doc.parent, parent |-> doc.parent, name |-> doc.name,
     aliases |-> doc.aliases, location_id |-> doc.location_id,
     zone_id |-> doc.zone_id, destination_id |-> doc.destination_id,
     description |-> doc.description, internal_description |-> "",
     attributes |-> doc.attributes]

Ev(ev, id, msg, loc) == [ev |-> ev, id |-> id, msg |-> msg, loc |-> loc]

Log(S, ev, id, msg, loc) == [S EXCEPT !.trace = Append(@, Ev(ev, id, msg, loc))]

Raise(S, e, m) == [S EXCEPT !.err = e, !.errmsg = m]

Put(f, k, v) == (k :> v) @@ f

Drop(f, k) == [x \in (DOMAIN f) \ {k} |-> f[x]]

\* The ids of the cache in dict iteration order.
OrderSeq(objs) == SelectSeq(order, LAMBDA i : i \in DOMAIN objs)

\* A reference that get_object cannot resolve.
Dangling(objs, id) == id # 0 /\ id \notin DOMAIN objs

\* A lookup that hands out an instance for any id.
get_object_unchecked(objs, obj_id) == [err |-> "", id |-> obj_id]

\* get_object(obj_id): the id whose instance is returned, or InvalidObjectId.
get_object(objs, obj_id) ==
    IF obj_id \in DOMAIN objs THEN [err |-> "", id |-> obj_id]
    ELSE [err |-> "InvalidObjectId", id |-> 0]

save_object(S, id, o) ==
    Log([S EXCEPT !.db = Put(@, id, Odata(o)), !.objects = Put(@, id, o)],
        "save", id, "", o.location_id)

\* A destroy that deletes the document and leaves the instance in the cache.
destroy_object_document_only(S, id) ==
    IF id \notin DOMAIN S.db \/ id \notin DOMAIN S.objects
    THEN Raise(S, "KeyError", "")
    ELSE Log([S EXCEPT !.db = Drop(@, id)], "destroy_object", id, "", 0)

destroy_object(S, id) ==
    IF id \notin DOMAIN S.db \/ id \notin DOMAIN S.objects
    THEN Raise(S, "KeyError", "")
    ELSE Log([S EXCEPT !.db = Drop(@, id), !.objects = Drop(@, id)],
             "destroy_object", id, "", 0)

\* A store that numbers a new object one past the highest id in its cache.
create_object_after_highest(S, parent_path, kw) ==
    IF ~load_parent_ok(parent_path) THEN Raise(S, "InvalidParent", parent_path)
    ELSE LET id == 1 + CHOOSE i \in DOMAIN S.objects :
                         \A j \in DOMAIN S.objects : j <= i
             o == [cls |-> parent_path, parent |-> parent_path,
                   name |-> kw.name, aliases |-> kw.aliases,
                   location_id |-> kw.location_id, zone_id |-> 0,
                   destination_id |-> kw.destination_id,
                   description |-> "", internal_description |-> "",
                   attributes |-> <<>>]
             S1 == save_object(Log(S, "create_object", id, parent_path, 0), id, o)
         IN  [S1 EXCEPT !.next_dbref = id + 1]

\* A store that takes the next id before it asks the loader for the parent.
create_object_id_first(S, parent_path, kw) ==
    IF ~load_parent_ok(parent_path)
    THEN Raise([S EXCEPT !.next_dbref = @ + 1], "InvalidParent", parent_path)
    ELSE LET id == S.next_dbref
             o == [cls |-> parent_path, parent |-> parent_path,
                   name |-> kw.name, aliases |-> kw.aliases,
                   location_id |-> kw.location_id, zone_id |-> 0,
                   destination_id |-> kw.destination_id,
                   description |-> "", internal_description |-> "",
                   attributes |-> <<>>]
             S1 == save_object(Log(S, "create_object", id, parent_path, 0), id, o)
         IN  [S1 EXCEPT !.next_dbref = @ + 1]

create_object(S, parent_path, kw) ==
    IF ~load_parent_ok(parent_path) THEN Raise(S, "InvalidParent", parent_path)
    ELSE LET id == S.next_dbref
             o == [cls |-> parent_path, parent |-> parent_path,
                   name |-> kw.name, aliases |-> kw.aliases,
                   location_id |-> kw.location_id, zone_id |-> 0,
                   destination_id |-> kw.destination_id,
                   description |-> "", internal_description |-> "",
                   attributes |-> <<>>]
             S1 == save_object(Log(S, "create_object", id, parent_path, 0), id, o)
         IN  [S1 EXCEPT !.next_dbref = @ + 1]

get_object_contents_raises(objs) ==
    \E i \in DOMAIN objs : Dangling(objs, objs[i].location_id)

get_object_contents(objs, id) ==
    SelectSeq(OrderSeq(objs), LAMBDA i : objs[i].location_id = id)

find_exits_linked_to_obj_raises(objs, id) ==
    /\ base_type(objs[id]) # "exit"
    /\ \E i \in DOMAIN objs :
          base_type(objs[i]) = "exit" /\ Dangling(objs, objs[i].destination_id)

\* A scan that finds no exit.
find_no_exits_linked_to_obj(objs, id) == <<>>

find_exits_linked_to_obj(objs, id) ==
    IF base_type(objs[id]) = "exit" THEN <<>>
    ELSE SelectSeq(OrderSeq(objs),
                   LAMBDA i : base_type(objs[i]) = "exit"
                              /\ objs[i].destination_id = id)

find_objects_in_zone_raises(objs) ==
    \E i \in DOMAIN objs : Dangling(objs, objs[i].zone_id)

find_objects_in_zone(objs, id) ==
    SelectSeq(OrderSeq(objs), LAMBDA i : objs[i].zone_id = id)

----------------------------------------------------------------------------
\* BaseObject: location, search.

\* A setter that leaves every object where it is.
set_location_nowhere(o, dest_id) == o

set_location(o, dest_id) ==
    IF base_type(o) = "room" THEN o ELSE [o EXCEPT !.location_id = dest_id]

set_zone(o, zone_id) == [o EXCEPT !.zone_id = zone_id]

AliasMatches(o, desc) ==
    \E k \in 1..Len(o.aliases) : Lower(o.aliases[k]) = Lower(desc)

RECURSIVE name_or_alias_loop(_, _, _, _, _)
name_or_alias_loop(objs, seq, desc, ratio, result) ==
    IF Len(seq) = 0 THEN result
    ELSE LET o == objs[Head(seq)]
             r == PartialRatio(desc, o.name)
         IN  IF AliasMatches(o, desc) THEN Head(seq)
             ELSE IF r > 50 /\ r > ratio
                  THEN name_or_alias_loop(objs, Tail(seq), desc, r, Head(seq))
                  ELSE name_or_alias_loop(objs, Tail(seq), desc, ratio, result)

\* A match that prefers the best name score to an alias.
find_best_score_match(objs, seq, desc) ==
    LET scored == {k \in 1..Len(seq) : PartialRatio(desc, objs[seq[k]].name) > 50}
        aliased == {k \in 1..Len(seq) : AliasMatches(objs[seq[k]], desc)}
    IN  IF scored # {}
        THEN seq[CHOOSE k \in scored :
                     \A j \in scored :
                         \/ PartialRatio(desc, objs[seq[j]].name)
                               < PartialRatio(desc, objs[seq[k]].name)
                         \/ PartialRatio(desc, objs[seq[j]].name)
                               = PartialRatio(desc, objs[seq[k]].name) /\ k <= j]
        ELSE IF aliased # {} THEN seq[CHOOSE k \in aliased : \A j \in aliased : k <= j]
        ELSE 0

\* A loop that lets a later object take the result on an equal score.
RECURSIVE name_or_alias_loop_last_on_ties(_, _, _, _, _)
name_or_alias_loop_last_on_ties(objs, seq, desc, ratio, result) ==
    IF Len(seq) = 0 THEN result
    ELSE LET o == objs[Head(seq)]
             r == PartialRatio(desc, o.name)
         IN  IF AliasMatches(o, desc) THEN Head(seq)
             ELSE IF r > 50 /\ r >= ratio
                  THEN name_or_alias_loop_last_on_ties(objs, Tail(seq), desc, r, Head(seq))
                  ELSE name_or_alias_loop_last_on_ties(objs, Tail(seq), desc, ratio, result)

\* A match that returns the last of the objects with the best name score.
find_last_best_match(objs, seq, desc) ==
    name_or_alias_loop_last_on_ties(objs, seq, desc, 0, 0)

\* 0 stands for None.
find_name_or_alias_match(objs, seq, desc) ==
    name_or_alias_loop(objs, seq, desc, 0, 0)

Found(id) == [err |-> "", id |-> id]

NotFoundErr(e) == [err |-> e, id |-> 0]

\* An id lookup that lets every invoker find every object of the store.
find_object_id_match_globally(objs, inv, desc) ==
    LET tid == IF IsRef(desc) THEN IdOfRef(desc) ELSE 0
    IN  IF tid \notin DOMAIN objs THEN NotFoundErr("InvalidObjectId")
        ELSE Found(tid)

find_object_id_match(objs, inv, desc) ==
    LET tid == IF IsRef(desc) THEN IdOfRef(desc) ELSE 0
    IN  IF tid \notin DOMAIN objs THEN NotFoundErr("InvalidObjectId")
        ELSE LET me == objs[inv]
                 t == objs[tid]
             IN  IF is_admin(me) THEN Found(tid)
                 ELSE IF Dangling(objs, me.location_id)
                      THEN NotFoundErr("InvalidObjectId")
                 ELSE IF me.location_id # 0 /\ Dangling(objs, t.location_id)
                      THEN NotFoundErr("InvalidObjectId")
                 ELSE IF me.location_id # 0 /\ t.location_id # 0
                      THEN IF me.location_id = t.location_id \/ me.location_id = tid
                           THEN Found(tid) ELSE Found(0)
                 ELSE IF base_type(t) = "room"
                      THEN IF me.location_id # 0 /\ me.location_id = tid
                           THEN Found(tid) ELSE Found(0)
                 ELSE Found(0)

\* The part of contextual_object_search after the object-id lookup.
search_after_id(objs, inv, desc) ==
    LET me == objs[inv]
    IN  IF Lower(desc) = "me" THEN Found(inv)
        ELSE IF Dangling(objs, me.location_id) THEN NotFoundErr("InvalidObjectId")
        ELSE IF Lower(desc) = "here" THEN Found(me.location_id)
        ELSE IF get_object_contents_raises(objs) THEN NotFoundErr("InvalidObjectId")
        ELSE LET nb == IF me.location_id # 0
                       THEN find_name_or_alias_match(
                                objs, get_object_contents(objs, me.location_id), desc)
                       ELSE 0
             IN  IF nb # 0 THEN Found(nb)
                 ELSE Found(find_name_or_alias_match(
                                objs, get_object_contents(objs, inv), desc))

\* desc is the token sequence of the text; the result is [err, id], id 0
\* for None.
contextual_object_search(objs, inv, desc_tokens) ==
    LET desc == Join(desc_tokens)
    IN  IF desc = "" THEN Found(0)
        ELSE IF IsRef(desc)
             THEN LET m == find_object_id_match(objs, inv, desc)
                  IN  IF m.err # "" \/ m.id # 0 THEN m
                      ELSE search_after_id(objs, inv, desc)
             ELSE search_after_id(objs, inv, desc)

----------------------------------------------------------------------------
\* BaseObject.destroy

RECURSIVE clear_zones(_, _)
clear_zones(S, members) ==
    IF Len(members) = 0 THEN S
    ELSE LET m == Head(members)
             S1 == Log([S EXCEPT !.objects[m] = set_zone(@, 0)], "clear_zone", m, "", 0)
         IN  clear_zones(save_object(S1, m, S1.objects[m]), Tail(members))

RECURSIVE destroy(_, _)
RECURSIVE destroy_all(_, _)
destroy_all(S, exits) ==
    IF Len(exits) = 0 \/ S.err # "" THEN S
    ELSE destroy_all(destroy(S, Head(exits)), Tail(exits))

destroy(S, id) ==
    IF S.err # "" THEN S
    ELSE IF find_exits_linked_to_obj_raises(S.objects, id)
         THEN Raise(S, "InvalidObjectId", "")
    ELSE LET S1 == destroy_all(Log(S, "destroy", id, "", 0),
                               find_exits_linked_to_obj(S.objects, id))
         IN  IF S1.err # "" THEN S1
             ELSE IF find_objects_in_zone_raises(S1.objects)
                  THEN Raise(S1, "InvalidObjectId", "")
             ELSE destroy_object(
                      clear_zones(S1, find_objects_in_zone(S1.objects, id)), id)

\* empty_out_zone(zmo): clears the zone of every member of the zone and
\* saves each member.
empty_out_zone(S, zmo) ==
    IF find_objects_in_zone_raises(S.objects) THEN Raise(S, "InvalidObjectId", "")
    ELSE clear_zones(S, find_objects_in_zone(S.objects, zmo))

\* The list empty_out_zone(zmo) returns: the members it cleared.
empty_out_zone_members(objs, zmo) == find_objects_in_zone(objs, zmo)

\* The members of a zone destroyed one after the other; a member that an
\* earlier destroy() took along is no longer in the store.
RECURSIVE raze_members(_, _)
raze_members(S, members) ==
    IF Len(members) = 0 \/ S.err # "" THEN S
    ELSE IF Head(members) \notin DOMAIN S.objects THEN Raise(S, "KeyError", "")
    ELSE raze_members(destroy(S, Head(members)), Tail(members))

\* raze_zone(zmo): destroys every member of the zone, then the zone master.
raze_zone(S, zmo) ==
    IF find_objects_in_zone_raises(S.objects) THEN Raise(S, "InvalidObjectId", "")
    ELSE LET S1 == raze_members(S, find_objects_in_zone(S.objects, zmo))
         IN  IF S1.err # "" THEN S1
             ELSE IF zmo \notin DOMAIN S1.objects THEN Raise(S1, "KeyError", "")
             ELSE destroy(S1, zmo)

\* The list raze_zone(zmo) returns: the objects it destroyed, the members
\* and the zone master.
raze_zone_members(objs, zmo) == Append(find_objects_in_zone(objs, zmo), zmo)

----------------------------------------------------------------------------
\* Command parser and command tables.

\* CommandParser.parse: a raw line is given by its verb, its switches and
\* its whitespace-separated words, each word a sequence of tokens with "="
\* a token of its own.
parse(line) ==
    [command_str |-> line.verb, switches |-> line.switches,
     arguments |-> line.words, argument_string |-> Flatten(line.words)]

CmdAliases(name) ==
    CASE name = "@teleport" -> {"@tel"}
      [] name = "@destroy" -> {"@dest", "@nuke"}
      [] name = "@describe" -> {"@desc"}
      [] OTHER -> {}

GlobalAdminTable ==
    {"@dig", "@create", "@teleport", "@describe", "@name", "@zone", "@zmo",
     "@parent", "@alias", "@destroy", "@open", "@unlink", "@link", "@set"}

GlobalTable == {"look", "go"}

NoDef == [tbl |-> "", name |-> ""]

\* CommandTable.lookup_command: exact match on name or alias.
lookup_command(tbl, table, pc) ==
    LET v == Lower(pc.command_str)
        hits == {n \in table : n = v \/ v \in CmdAliases(n)}
    IN  IF hits = {} THEN NoDef
        ELSE [tbl |-> tbl, name |-> CHOOSE n \in hits : TRUE]

\* The global tables before the location's.
TableOrder_global_first == <<"global_admin", "global", "local_admin", "local">>

\* The tables _match_user_input_to_command looks at, in its order.
TableOrder == <<"local_admin", "local", "global_admin", "global">>

\* The tables without the is_admin() conditions.
TableOf_any_invoker(tbl, objs, inv) ==
    LET loc == objs[inv].location_id
    IN  CASE tbl = "local_admin" ->
               IF loc # 0 THEN local_admin_command_table[objs[loc].cls] ELSE {}
          [] tbl = "local" ->
               IF loc # 0 THEN local_command_table[objs[loc].cls] ELSE {}
          [] tbl = "global_admin" -> GlobalAdminTable
          [] OTHER -> global_cmd_table

TableOf(tbl, objs, inv) ==
    LET me == objs[inv]
        loc == me.location_id
    IN  CASE tbl = "local_admin" ->
               IF loc # 0 /\ is_admin(me)
               THEN local_admin_command_table[objs[loc].cls] ELSE {}
          [] tbl = "local" ->
               IF loc # 0 THEN local_command_table[objs[loc].cls] ELSE {}
          [] tbl = "global_admin" ->
               IF is_admin(me) THEN GlobalAdminTable ELSE {}
          [] OTHER -> global_cmd_table

RECURSIVE match_in_tables(_, _, _, _)
match_in_tables(tbls, objs, inv, pc) ==
    IF Len(tbls) = 0 THEN NoDef
    ELSE LET r == lookup_command(Head(tbls), TableOf(Head(tbls), objs, inv), pc)
         IN  IF r # NoDef THEN r
             ELSE match_in_tables(Tail(tbls), objs, inv, pc)

\* [err, def]; invoker.location fails when the location is no longer there.
match_user_input_to_command(objs, inv, pc) ==
    IF Dangling(objs, objs[inv].location_id)
    THEN [err |-> "InvalidObjectId", def |-> NoDef]
    ELSE [err |-> "", def |-> match_in_tables(TableOrder, objs, inv, pc)]

ExitNeighbors(objs, inv) ==
    SelectSeq(get_object_contents(objs, objs[inv].location_id),
              LAMBDA i : base_type(objs[i]) = "exit")

\* The last exit with a matching alias instead of the first.
LastMatching(objs, exits, exit_str) ==
    LET hits == {k \in 1..Len(exits) :
                    \E a \in 1..Len(objs[exits[k]].aliases) :
                        Lower(objs[exits[k]].aliases[a]) = exit_str}
    IN  IF hits = {} THEN 0
        ELSE exits[CHOOSE k \in hits : \A j \in hits : j <= k]

FirstMatching(objs, exits, exit_str) ==
    LET hits == {k \in 1..Len(exits) :
                    \E a \in 1..Len(objs[exits[k]].aliases) :
                        Lower(objs[exits[k]].aliases[a]) = exit_str}
    IN  IF hits = {} THEN 0
        ELSE exits[CHOOSE k \in hits : \A j \in hits : k <= j]

\* [err, id]; id 0 for None.
match_user_input_to_exit(objs, inv, pc) ==
    IF Dangling(objs, objs[inv].location_id) THEN NotFoundErr("InvalidObjectId")
    ELSE IF objs[inv].location_id = 0 THEN Found(0)
    ELSE IF get_object_contents_raises(objs) THEN NotFoundErr("InvalidObjectId")
    ELSE Found(FirstMatching(objs, ExitNeighbors(objs, inv), Lower(pc.command_str)))

\* A handler that leaves the input as typed on an exit match.
keep_as_typed(pc, exit_id) == pc

\* The rewrite handle_input applies on an exit match.
rewrite_as_go(pc, exit_id) ==
    [pc EXCEPT !.command_str = "go", !.arguments = << <<RefOf(exit_id)>> >>]

----------------------------------------------------------------------------
\* move_to, the commands and the command handler call one another.

\* The value of a call, named for the code that follows it.
Bind(v, K(_)) == K(v)

RECURSIVE handle_input(_, _, _)
RECURSIVE execute_command(_, _, _)
RECURSIVE move_to(_, _, _, _)
RECURSIVE exec_func(_, _, _, _)

CommandError(S, m) == Raise(S, "CommandError", m)

Emit(S, id, msg) == Log(S, "emit", id, msg, 0)

RECURSIVE emit_each(_, _, _)
emit_each(S, ids, msg) ==
    IF Len(ids) = 0 THEN S
    ELSE emit_each(Emit(S, Head(ids), msg), Tail(ids), msg)

\* before_object_leaves_event(actor): pass
before_object_leaves_event(S, loc, actor) ==
    Log(S, "before_object_leaves_event", loc, "", S.objects[actor].location_id)

\* before_object_enters_event(actor): tells this object's contents.
before_object_enters_event(S, loc, actor) ==
    IF get_object_contents_raises(S.objects) THEN Raise(S, "InvalidObjectId", "")
    ELSE emit_each(
             Log(S, "before_object_enters_event", loc, "", S.objects[actor].location_id),
             get_object_contents(S.objects, loc), "has arrived")

\* after_object_leaves_event(actor): tells this object's contents.
after_object_leaves_event(S, loc, actor) ==
    IF get_object_contents_raises(S.objects) THEN Raise(S, "InvalidObjectId", "")
    ELSE emit_each(
             Log(S, "after_object_leaves_event", loc, "", S.objects[actor].location_id),
             get_object_contents(S.objects, loc), "has left")

\* after_object_enters_event(actor): pass
after_object_enters_event(S, loc, actor) ==
    Log(S, "after_object_enters_event", loc, "", S.objects[actor].location_id)

LookLine == [verb |-> "look", switches |-> {}, words |-> <<>>]

move_to(S, id, dest, force_look) ==
    LET old == S.objects[id].location_id
    IN  IF Dangling(S.objects, old) THEN Raise(S, "InvalidObjectId", "")
        ELSE IF old = 0 THEN Raise(S, "AttributeError", "")
        ELSE
        Bind(before_object_leaves_event(Log(S, "move_to", id, "", dest), old, id),
             LAMBDA S1 :
        Bind(before_object_enters_event(S1, dest, id), LAMBDA S2 :
        IF S2.err # "" THEN S2 ELSE
        Bind([S2 EXCEPT !.objects[id] = set_location(@, dest)], LAMBDA S3 :
        Bind(save_object(S3, id, S3.objects[id]), LAMBDA S4 :
        Bind(after_object_leaves_event(S4, old, id), LAMBDA S5 :
        IF S5.err # "" THEN S5 ELSE
        Bind(after_object_enters_event(S5, dest, id), LAMBDA S6 :
        Bind(IF force_look THEN execute_command(S6, id, LookLine) ELSE S6,
             LAMBDA S7 :
        IF S7.err # "" THEN S7
        ELSE Log(S7, "move_to_done", id, "", dest))))))))

NoKw == [name |-> "", aliases |-> <<>>, location_id |-> 0, destination_id |-> 0]

\* The location the invoker's location_id names: 0 for None; the caller
\* checks Dangling first.
CmdDig(S, inv, pc) ==
    LET name_str == Join(Flatten(pc.arguments))
        new_id == S.next_dbref
        S1 == create_object(S, RoomParent, [NoKw EXCEPT !.name = name_str])
        S2 == Emit(S1, inv, "You have dug a new room")
    IN  IF name_str = "" THEN CommandError(S, "@dig requires a name for the new room.")
        ELSE IF S1.err # "" THEN S1
        ELSE IF "teleport" \in pc.switches THEN move_to(S2, inv, new_id, TRUE)
        ELSE S2

CmdCreate(S, inv, pc) ==
    LET name_str == Join(Flatten(pc.arguments))
        loc == S.objects[inv].location_id
        S1 == create_object(S, ThingParent,
                            [NoKw EXCEPT !.name = name_str, !.location_id = loc])
    IN  IF name_str = "" THEN CommandError(S, "You must provide a name for the new Thing.")
        ELSE IF Dangling(S.objects, loc) THEN Raise(S, "InvalidObjectId", "")
        ELSE IF loc = 0 THEN Raise(S, "AttributeError", "")
        ELSE IF S1.err # "" THEN S1
        ELSE Emit(S1, inv, "You have created a new thing")

\* @teleport without the checks on a room and on the object itself.
CmdTeleport_unchecked(S, inv, pc) ==
    LET sp == SplitEq(pc.argument_string)
        obj_to_tel_str == IF Len(sp) = 1 THEN <<"me">> ELSE sp[1]
        destination_str == IF Len(sp) = 1 THEN sp[1] ELSE sp[2]
        t == contextual_object_search(S.objects, inv, obj_to_tel_str)
        d == contextual_object_search(S.objects, inv, destination_str)
    IN  IF Len(pc.arguments) = 0 THEN CommandError(S, "Teleport what to where?")
        ELSE IF t.err # "" THEN Raise(S, t.err, "")
        ELSE IF t.id = 0
             THEN CommandError(S, "Unable to find your target object to teleport.")
        ELSE IF d.err # "" THEN Raise(S, d.err, "")
        ELSE IF d.id = 0 THEN CommandError(S, "Unable to find your destination.")
        ELSE move_to(S, t.id, d.id, TRUE)

CmdTeleport(S, inv, pc) ==
    LET sp == SplitEq(pc.argument_string)
        obj_to_tel_str == IF Len(sp) = 1 THEN <<"me">> ELSE sp[1]
        destination_str == IF Len(sp) = 1 THEN sp[1] ELSE sp[2]
        t == contextual_object_search(S.objects, inv, obj_to_tel_str)
        d == contextual_object_search(S.objects, inv, destination_str)
    IN  IF Len(pc.arguments) = 0 THEN CommandError(S, "Teleport what to where?")
        ELSE IF t.err # "" THEN Raise(S, t.err, "")
        ELSE IF t.id = 0
             THEN CommandError(S, "Unable to find your target object to teleport.")
        ELSE IF d.err # "" THEN Raise(S, d.err, "")
        ELSE IF d.id = 0 THEN CommandError(S, "Unable to find your destination.")
        ELSE IF IsRoomObject(S.objects[t.id])
             THEN CommandError(S, "Rooms cannot be teleported")
        ELSE IF t.id = d.id
             THEN CommandError(S, "Objects can not teleport inside themselves.")
        ELSE move_to(S, t.id, d.id, TRUE)

CmdZone(S, inv, pc) ==
    LET sp == SplitEq(pc.argument_string)
        t == contextual_object_search(S.objects, inv, sp[1])
        z == IF Len(sp[2]) = 0 THEN Found(0)
             ELSE contextual_object_search(S.objects, inv, sp[2])
    IN  IF Len(pc.arguments) = 0 THEN CommandError(S, "Set the zone on what?")
        ELSE IF Len(sp) = 1 THEN CommandError(S, "No zone provided.")
        ELSE IF t.err # "" THEN Raise(S, t.err, "")
        ELSE IF t.id = 0 THEN CommandError(S, "Unable to find your target object to zone.")
        ELSE IF z.err # "" THEN Raise(S, z.err, "")
        ELSE IF Len(sp[2]) # 0 /\ z.id = 0
             THEN CommandError(S, "Unable to find your zone master object.")
        ELSE LET S1 == [S EXCEPT !.objects[t.id] = set_zone(@, z.id)]
                 S2 == save_object(S1, t.id, S1.objects[t.id])
             IN  Emit(S2, inv, IF z.id # 0 THEN "You zone" ELSE "You clear the zone")

\* InMemoryObjectStore._load_object / reload_object
load_object(S, id) ==
    IF id \notin DOMAIN S.db THEN Raise(S, "ResourceNotFound", "")
    ELSE IF ~load_parent_ok(S.db[id].parent)
         THEN Raise(S, "InvalidParent", S.db[id].parent)
    ELSE Log([S EXCEPT !.objects = Put(@, id, Instantiate(S.db[id]))],
             "load_object", id, "", 0)

reload_object(S, id) ==
    IF id \notin DOMAIN S.objects THEN Raise(S, "KeyError", "")
    ELSE load_object([S EXCEPT !.objects = Drop(@, id)], id)

\* @parent that writes and saves the parent before it asks the loader.
CmdParent_write_first(S, inv, pc) ==
    LET sp == SplitEq(pc.argument_string)
        parent_str == substitute_aliased_parent(Join(sp[2]))
        t == contextual_object_search(S.objects, inv, sp[1])
        S1 == [S EXCEPT !.objects[t.id].parent = parent_str]
        S2 == save_object(S1, t.id, S1.objects[t.id])
        S3 == reload_object(S2, t.id)
    IN  IF Len(pc.arguments) = 0 THEN CommandError(S, "Re-parent what?")
        ELSE IF Len(sp) = 1 THEN CommandError(S, "No parent provided.")
        ELSE IF parent_str = "" THEN CommandError(S, "No parent provided.")
        ELSE IF t.err # "" THEN Raise(S, t.err, "")
        ELSE IF t.id = 0
             THEN CommandError(S, "Unable to find your target object to re-parent.")
        ELSE IF ~load_parent_ok(parent_str) THEN CommandError(S2, "Invalid parent")
        ELSE IF S3.err # "" THEN S3 ELSE Emit(S3, inv, "You re-parent")

\* @parent whose reload has not run by the time the request is answered.
CmdParent_suspended_at_reload(S, inv, pc) ==
    LET sp == SplitEq(pc.argument_string)
        parent_str == substitute_aliased_parent(Join(sp[2]))
        t == contextual_object_search(S.objects, inv, sp[1])
    IN  IF Len(pc.arguments) = 0 THEN CommandError(S, "Re-parent what?")
        ELSE IF Len(sp) = 1 THEN CommandError(S, "No parent provided.")
        ELSE IF parent_str = "" THEN CommandError(S, "No parent provided.")
        ELSE IF t.err # "" THEN Raise(S, t.err, "")
        ELSE IF t.id = 0
             THEN CommandError(S, "Unable to find your target object to re-parent.")
        ELSE IF ~load_parent_ok(parent_str) THEN CommandError(S, "Invalid parent")
        ELSE LET S1 == [S EXCEPT !.objects[t.id].parent = parent_str]
             IN  save_object(S1, t.id, S1.objects[t.id])

CmdParent(S, inv, pc) ==
    LET sp == SplitEq(pc.argument_string)
        parent_str == substitute_aliased_parent(Join(sp[2]))
        t == contextual_object_search(S.objects, inv, sp[1])
    IN  IF Len(pc.arguments) = 0 THEN CommandError(S, "Re-parent what?")
        ELSE IF Len(sp) = 1 THEN CommandError(S, "No parent provided.")
        ELSE IF parent_str = "" THEN CommandError(S, "No parent provided.")
        ELSE IF t.err # "" THEN Raise(S, t.err, "")
        ELSE IF t.id = 0
             THEN CommandError(S, "Unable to find your target object to re-parent.")
        ELSE IF ~load_parent_ok(parent_str) THEN CommandError(S, "Invalid parent")
        ELSE LET S1 == [S EXCEPT !.objects[t.id].parent = parent_str]
                 S2 == save_object(S1, t.id, S1.objects[t.id])
                 S3 == reload_object(S2, t.id)
             IN  IF S3.err # "" THEN S3 ELSE Emit(S3, inv, "You re-parent")

CmdDestroy(S, inv, pc) ==
    LET t == contextual_object_search(S.objects, inv, pc.argument_string)
    IN  IF Len(pc.arguments) = 0 THEN CommandError(S, "Destroy what?")
        ELSE IF t.err # "" THEN Raise(S, t.err, "")
        ELSE IF t.id = 0
             THEN CommandError(S, "Unable to find your target object to destroy.")
        ELSE destroy(Emit(S, inv, "You destroy"), t.id)

\* An @open that puts the new exit in its destination.
CmdOpen_in_destination(S, inv, pc) ==
    LET alias_str == Join(pc.arguments[1])
        sp == SplitEq(Flatten(Tail(pc.arguments)))
        exit_name == Join(sp[1])
        dest_str == IF Len(sp) > 1 THEN sp[2] ELSE <<>>
        d == contextual_object_search(S.objects, inv, dest_str)
        loc == S.objects[inv].location_id
        S1 == create_object(S, ExitParent,
                  [name |-> exit_name, aliases |-> <<alias_str>>,
                   location_id |-> d.id, destination_id |-> d.id])
    IN  IF Len(pc.arguments) = 0
        THEN CommandError(S, "Open an exit named what, and to where?")
        ELSE IF Len(pc.arguments) < 2
             THEN CommandError(S, "You must at least provide an alias and an exit name.")
        ELSE IF Len(dest_str) # 0 /\ d.err # "" THEN Raise(S, d.err, "")
        ELSE IF Len(dest_str) # 0 /\ d.id = 0
             THEN CommandError(S, "Unable to find specified destination.")
        ELSE IF Dangling(S.objects, loc) THEN Raise(S, "InvalidObjectId", "")
        ELSE IF loc = 0 THEN Raise(S, "AttributeError", "")
        ELSE IF S1.err # "" THEN S1
        ELSE Emit(S1, inv, "You have opened a new exit")
CmdOpen(S, inv, pc) ==
    LET alias_str == Join(pc.arguments[1])
        sp == SplitEq(Flatten(Tail(pc.arguments)))
        exit_name == Join(sp[1])
        dest_str == IF Len(sp) > 1 THEN sp[2] ELSE <<>>
        d == contextual_object_search(S.objects, inv, dest_str)
        loc == S.objects[inv].location_id
        S1 == create_object(S, ExitParent,
                  [name |-> exit_name, aliases |-> <<alias_str>>,
                   location_id |-> loc, destination_id |-> d.id])
    IN  IF Len(pc.arguments) = 0
        THEN CommandError(S, "Open an exit named what, and to where?")
        ELSE IF Len(pc.arguments) < 2
             THEN CommandError(S, "You must at least provide an alias and an exit name.")
        ELSE IF Len(dest_str) # 0 /\ d.err # "" THEN Raise(S, d.err, "")
        ELSE IF Len(dest_str) # 0 /\ d.id = 0
             THEN CommandError(S, "Unable to find specified destination.")
        ELSE IF Dangling(S.objects, loc) THEN Raise(S, "InvalidObjectId", "")
        ELSE IF loc = 0 THEN Raise(S, "AttributeError", "")
        ELSE IF S1.err # "" THEN S1
        ELSE Emit(S1, inv, "You have opened a new exit")

CmdUnlink(S, inv, pc) ==
    LET t == contextual_object_search(S.objects, inv, pc.argument_string)
    IN  IF Len(pc.arguments) = 0 THEN CommandError(S, "Unlink which exit?")
        ELSE IF t.err # "" THEN Raise(S, t.err, "")
        ELSE IF t.id = 0 THEN CommandError(S, "Unable to find your target exit to unlink.")
        ELSE IF ~IsExitObject(S.objects[t.id])
             THEN CommandError(S, "You may only unlink exits.")
        ELSE LET S1 == Emit(S, inv, "You unlink")
                 S2 == [S1 EXCEPT !.objects[t.id].destination_id = 0]
             IN  save_object(S2, t.id, S2.objects[t.id])

CmdLink(S, inv, pc) ==
    LET sp == SplitEq(pc.argument_string)
        t == contextual_object_search(S.objects, inv, sp[1])
        d == contextual_object_search(S.objects, inv, sp[2])
    IN  IF Len(pc.arguments) = 0 THEN CommandError(S, "Link which exit?")
        ELSE IF Len(sp) = 1 THEN CommandError(S, "No destination provided.")
        ELSE IF t.err # "" THEN Raise(S, t.err, "")
        ELSE IF t.id = 0 THEN CommandError(S, "Unable to find your target exit to link.")
        ELSE IF ~IsExitObject(S.objects[t.id])
             THEN CommandError(S, "You may only link exits.")
        ELSE IF d.err # "" THEN Raise(S, d.err, "")
        ELSE IF d.id = 0 THEN CommandError(S, "Unable to find the specified destination.")
        ELSE IF IsExitObject(S.objects[d.id])
             THEN CommandError(S, "You can't link to other exits.")
        ELSE LET S1 == Emit(S, inv, "You link")
                 S2 == [S1 EXCEPT !.objects[t.id].destination_id = d.id]
             IN  save_object(S2, t.id, S2.objects[t.id])

CmdDescribe(S, inv, pc) ==
    LET sp == SplitEq(pc.argument_string)
        description == Join(sp[2])
        t == contextual_object_search(S.objects, inv, sp[1])
        is_idesc == {"internal", "i", "in"} \cap pc.switches # {}
    IN  IF Len(pc.arguments) = 0 THEN CommandError(S, "Describe what?")
        ELSE IF Len(sp) = 1 THEN CommandError(S, "No description provided.")
        ELSE IF t.err # "" THEN Raise(S, t.err, "")
        ELSE IF t.id = 0
             THEN CommandError(S, "Unable to find your target object to describe.")
        ELSE LET S1 == Emit(S, inv, IF is_idesc THEN "You internally describe"
                                    ELSE "You describe")
                 S2 == IF is_idesc
                       THEN [S1 EXCEPT !.objects[t.id].internal_description = description]
                       ELSE [S1 EXCEPT !.objects[t.id].description = description]
             IN  save_object(S2, t.id, S2.objects[t.id])

CmdName(S, inv, pc) ==
    LET sp == SplitEq(pc.argument_string)
        name == Join(sp[2])
        t == contextual_object_search(S.objects, inv, sp[1])
    IN  IF Len(pc.arguments) = 0 THEN CommandError(S, "Name what?")
        ELSE IF Len(sp) = 1 THEN CommandError(S, "No name provided.")
        ELSE IF t.err # "" THEN Raise(S, t.err, "")
        ELSE IF t.id = 0
             THEN CommandError(S, "Unable to find your target object to name.")
        ELSE LET S1 == Emit(S, inv, "You re-name")
                 S2 == [S1 EXCEPT !.objects[t.id].name = name]
             IN  save_object(S2, t.id, S2.objects[t.id])

\* What is left of a call whose Deferred nobody waits for: a failure stays
\* in the Deferred.
Dropped(S) == [S EXCEPT !.err = "", !.errmsg = ""]

handle_zmo_summary(S, inv, zmo) ==
    IF find_objects_in_zone_raises(S.objects) THEN Raise(S, "InvalidObjectId", "")
    ELSE Emit(S, inv, "ZMO Summary")

\* '%d' % n for the counts the model reaches.
Decimal(n) == <<"0", "1", "2", "3", "4", "5", "6", "7", "8", "9">>[n + 1]

\* An @zmo/empty that razes the zone.
handle_zmo_empty_razing(S, inv, zmo) ==
    LET S1 == raze_zone(S, zmo)
    IN  IF S1.err # "" THEN Dropped(S1)
        ELSE Emit(S1, inv, "Cleared "
                 \o Decimal(Len(empty_out_zone_members(S.objects, zmo)))
                 \o " object(s) from ZMO")

handle_zmo_empty(S, inv, zmo) ==
    LET S1 == empty_out_zone(S, zmo)
    IN  IF S1.err # "" THEN Dropped(S1)
        ELSE Emit(S1, inv, "Cleared "
                 \o Decimal(Len(empty_out_zone_members(S.objects, zmo)))
                 \o " object(s) from ZMO")

handle_zmo_raze(S, inv, zmo) ==
    LET S1 == raze_zone(S, zmo)
    IN  IF S1.err # "" THEN Dropped(S1)
        ELSE Emit(S1, inv, "Deleted ZMO and its "
                 \o Decimal(Len(raze_zone_members(S.objects, zmo)) - 1)
                 \o " member object(s)")

CmdZmo(S, inv, pc) ==
    LET zmo == contextual_object_search(S.objects, inv, pc.argument_string)
    IN  IF Len(pc.arguments) = 0
        THEN CommandError(S, "You must specify a Zone Master Object (ZMO).")
        ELSE IF zmo.err # "" THEN Raise(S, zmo.err, "")
        ELSE IF zmo.id = 0
             THEN CommandError(S, "Unable to find the given Zone Master Object (ZMO).")
        ELSE IF pc.switches = {} THEN handle_zmo_summary(S, inv, zmo.id)
        ELSE IF "empty" \in pc.switches THEN handle_zmo_empty(S, inv, zmo.id)
        ELSE IF "raze" \in pc.switches THEN handle_zmo_raze(S, inv, zmo.id)
        ELSE CommandError(S, "Invalid @zmo switch. Must be one of: empty, raze")

CmdAlias(S, inv, pc) ==
    LET sp == SplitEq(pc.argument_string)
        aliases == sp[2]
        t == contextual_object_search(S.objects, inv, sp[1])
    IN  IF Len(pc.arguments) = 0 THEN CommandError(S, "Alias what?")
        ELSE IF Len(sp) = 1 THEN CommandError(S, "No alias(es) provided.")
        ELSE IF t.err # "" THEN Raise(S, t.err, "")
        ELSE IF t.id = 0
             THEN CommandError(S, "Unable to find your target object to alias.")
        ELSE LET S1 == Emit(S, inv, IF Len(aliases) = 0 THEN "You clear all aliases"
                                    ELSE "You alias")
                 S2 == [S1 EXCEPT !.objects[t.id].aliases = aliases]
             IN  save_object(S2, t.id, S2.objects[t.id])

\* json.loads on the values the model uses: whether it returns.
json_loads_ok(attr_value) == attr_value \in {"true", "null"}

\* @set that stores the text of the value before it parses it.
CmdSet_store_first(S, inv, pc) ==
    LET sp == SplitEq(pc.argument_string)
        t == contextual_object_search(S.objects, inv, sp[1])
        av == SplitColon(sp[2])
        S1 == [S EXCEPT !.objects[t.id].attributes = Put(@, Join(av[1]), Join(av[2]))]
        S2 == save_object(S1, t.id, S1.objects[t.id])
    IN  IF Len(pc.arguments) = 0 THEN CommandError(S, "Which object do you wish to set?")
        ELSE IF Len(sp) = 1 THEN CommandError(S, "You must specify a target and a value.")
        ELSE IF t.err # "" THEN Raise(S, t.err, "")
        ELSE IF t.id = 0 THEN CommandError(S, "Unable to find target object")
        ELSE IF Len(av) = 1
             THEN CommandError(S, "Attribute values must be in the form of ATTRIBNAME:VALUE")
        ELSE IF ~json_loads_ok(Join(av[2])) THEN CommandError(S2, "Invalid JSON value.")
        ELSE Emit(S2, inv, "Set attribute")

CmdSet(S, inv, pc) ==
    LET sp == SplitEq(pc.argument_string)
        t == contextual_object_search(S.objects, inv, sp[1])
        set_value == sp[2]
        av == SplitColon(set_value)
        attr_name == Join(av[1])
        attr_value == Join(av[2])
    IN  IF Len(pc.arguments) = 0 THEN CommandError(S, "Which object do you wish to set?")
        ELSE IF Len(sp) = 1 THEN CommandError(S, "You must specify a target and a value.")
        ELSE IF t.err # "" THEN Raise(S, t.err, "")
        ELSE IF t.id = 0 THEN CommandError(S, "Unable to find target object")
        ELSE IF Len(av) = 1
             THEN CommandError(S, "Attribute values must be in the form of ATTRIBNAME:VALUE")
        ELSE IF ~json_loads_ok(attr_value) THEN CommandError(S, "Invalid JSON value.")
        ELSE LET S1 == [S EXCEPT !.objects[t.id].attributes = Put(@, attr_name, attr_value)]
                 S2 == save_object(S1, t.id, S1.objects[t.id])
             IN  Emit(S2, inv, "Set attribute")

\* The 'look' command of the global table: shows the invoker its location.
CmdLook(S, inv, pc) ==
    LET loc == S.objects[inv].location_id
    IN  IF inv \notin DOMAIN S.objects THEN Raise(S, "InvalidObjectId", "")
        ELSE IF Dangling(S.objects, loc) THEN Raise(S, "InvalidObjectId", "")
        ELSE IF loc = 0 THEN Raise(S, "AttributeError", "")
        ELSE IF get_object_contents_raises(S.objects) THEN Raise(S, "InvalidObjectId", "")
        ELSE Emit(S, inv, "appearance")

\* The 'go' command of the global table: moves the invoker through an exit.
CmdGo(S, inv, pc) ==
    LET t == contextual_object_search(S.objects, inv, Flatten(pc.arguments))
    IN  IF Len(pc.arguments) = 0 THEN CommandError(S, "Go where?")
        ELSE IF t.err # "" THEN Raise(S, t.err, "")
        ELSE IF t.id = 0 THEN CommandError(S, "You can't go that way.")
        ELSE IF ~IsExitObject(S.objects[t.id]) THEN CommandError(S, "That is not an exit.")
        ELSE IF Dangling(S.objects, S.objects[t.id].destination_id)
             THEN Raise(S, "InvalidObjectId", "")
        ELSE IF S.objects[t.id].destination_id = 0
             THEN CommandError(S, "That exit leads nowhere.")
        ELSE move_to(S, inv, S.objects[t.id].destination_id, TRUE)

\* Commands of a location's own tables: what they do is the location's
\* business; they end well, with a CommandError or with another error.
LocalFunc(S, def, inv, pc) ==
    CASE def.name = "pray" -> CommandError(Emit(S, inv, "local"), "The gods are silent.")
      [] def.name = "crash" -> Raise(Emit(S, inv, "local"), "RuntimeError", "")
      [] OTHER -> Emit(S, inv, "local")

exec_func(S, def, inv, pc) ==
    IF def.tbl \in {"local", "local_admin"} THEN LocalFunc(S, def, inv, pc)
    ELSE CASE def.name = "@dig" -> CmdDig(S, inv, pc)
           [] def.name = "@create" -> CmdCreate(S, inv, pc)
           [] def.name = "@teleport" -> CmdTeleport(S, inv, pc)
           [] def.name = "@zone" -> CmdZone(S, inv, pc)
           [] def.name = "@parent" -> CmdParent(S, inv, pc)
           [] def.name = "@destroy" -> CmdDestroy(S, inv, pc)
           [] def.name = "@open" -> CmdOpen(S, inv, pc)
           [] def.name = "@link" -> CmdLink(S, inv, pc)
           [] def.name = "@unlink" -> CmdUnlink(S, inv, pc)
           [] def.name = "@describe" -> CmdDescribe(S, inv, pc)
           [] def.name = "@name" -> CmdName(S, inv, pc)
           [] def.name = "@zmo" -> CmdZmo(S, inv, pc)
           [] def.name = "@alias" -> CmdAlias(S, inv, pc)
           [] def.name = "@set" -> CmdSet(S, inv, pc)
           [] def.name = "look" -> CmdLook(S, inv, pc)
           [] def.name = "go" -> CmdGo(S, inv, pc)
           [] OTHER -> S

\* The critical notice of _handle_other_errors.
CriticalNotice == "ERROR: A critical error has occurred. Please notify the staff."

\* The error path of a CommandError with the one of the other errors added.
handle_command_error_then_others(S, inv) ==
    LET S1 == Emit(S, inv, S.errmsg)
        S2 == Emit(S1, inv, CriticalNotice)
        S3 == Log(S2, "log.err", inv, S.err, 0)
    IN  [Log(S3, "handled", inv, "CommandError", 0) EXCEPT !.err = "", !.errmsg = ""]

\* _handle_command_error, for a failure that failure.trap lets through.
handle_command_error(S, inv) ==
    [Log(Emit(S, inv, S.errmsg), "handled", inv, "CommandError", 0)
        EXCEPT !.err = "", !.errmsg = ""]

\* A call of BaseObject.get_appearance_name with the keyword arguments kw
\* next to the positional invoker: the error the call raises, "" for none.
get_appearance_name_call(kw) == IF kw = {} THEN "" ELSE "TypeError"

\* _handle_other_errors, then log.err: an error raised inside the errback
\* takes the place of the failure that is passed on to log.err.
handle_other_errors(S, inv) ==
    LET S1 == Emit(S, inv, CriticalNotice)
        S2 == Emit(S1, inv, "traceback: " \o S.err)
        S3 == Log(S2, "logger.error", inv, "Command handler encountered an error", 0)
        e == get_appearance_name_call({"force_admin_view"})
        S4 == IF e # "" THEN Raise(S3, e, "")
              ELSE Log(S3, "logger.error", inv, "Invoker", 0)
        S5 == Log(S4, "log.err", inv, S4.err, 0)
    IN  [Log(S5, "handled", inv, "error", 0) EXCEPT !.err = "", !.errmsg = ""]

\* The failure the deferred of handle_input hands to its errbacks.
Failed(S, inv) ==
    Log(Log(S, "failure", inv, S.err, 0), "failure.value", inv, S.errmsg, 0)

DefTag(def) == def.tbl \o ":" \o def.name

\* What is dispatched: the verb and the argument list.
Dispatched(pc) ==
    IF Len(pc.arguments) = 0 THEN pc.command_str
    ELSE pc.command_str \o " " \o Join(Flatten(pc.arguments))

handle_input(S, inv, line) ==
    LET parsed == parse(line)
        exit_match == match_user_input_to_exit(S.objects, inv, parsed)
        pc == IF exit_match.id # 0 THEN rewrite_as_go(parsed, exit_match.id)
              ELSE parsed
        S0 == Log(Log(S, "input", inv, line.verb, 0), "dispatch", inv, Dispatched(pc), 0)
    IN  IF exit_match.err # "" THEN Raise(S, exit_match.err, "")
        ELSE
        Bind(match_user_input_to_command(S.objects, inv, pc), LAMBDA cmd_match :
        IF cmd_match.err # "" THEN Raise(S, cmd_match.err, "")
        ELSE IF cmd_match.def = NoDef
             THEN [Log(S0, "return", inv, "None", 0) EXCEPT !.ret = ""]
        ELSE
        Bind(exec_func(Log(S0, "exec", inv, DefTag(cmd_match.def), 0),
                       cmd_match.def, inv, pc), LAMBDA S1 :
        Bind(IF S1.err = "" THEN Log(S1, "handled", inv, "ok", 0)
             ELSE IF S1.err = "CommandError"
                  THEN handle_command_error(Failed(S1, inv), inv)
             ELSE handle_other_errors(Failed(S1, inv), inv),
             LAMBDA S2 :
        [Log(S2, "return", inv, DefTag(cmd_match.def), 0)
            EXCEPT !.ret = DefTag(cmd_match.def)])))

\* A fallback that also answers a command that matched and failed.
execute_command_huh_on_failure(S, inv, line) ==
    Bind(handle_input(S, inv, line), LAMBDA S1 :
    IF S1.err # "" THEN S1
    ELSE IF S1.ret = "" \/ \E k \in 1..Len(S1.trace) :
                              S1.trace[k].ev = "handled" /\ S1.trace[k].msg # "ok"
         THEN Emit(S1, inv, "Huh?")
    ELSE S1)

execute_command(S, inv, line) ==
    Bind(handle_input(S, inv, line), LAMBDA S1 :
    IF S1.err # "" THEN S1
    ELSE IF S1.ret = "" THEN Emit(S1, inv, "Huh?")
    ELSE S1)

----------------------------------------------------------------------------
\* The requests the proxy sends, and the state at startup.

Classes == ValidParents

NoTables == [c \in Classes |-> {}]

Identity == [i \in 1..Len(Refs) |-> i]

Reversed == [i \in 1..Len(Refs) |-> Len(Refs) + 1 - i]

FirstRoom ==
    [cls |-> RoomParent, parent |-> RoomParent, name |-> "And so it begins...",
     aliases |-> <<>>, location_id |-> 0, zone_id |-> 0, destination_id |-> 0,
     description |-> "", internal_description |-> "", attributes |-> <<>>]

\* The admin character the game is run with, as loaded from the database.
FirstAdmin ==
    [cls |-> AdminParent, parent |-> AdminParent, name |-> "admin",
     aliases |-> <<>>, location_id |-> 1, zone_id |-> 0, destination_id |-> 0,
     description |-> "", internal_description |-> "", attributes |-> <<>>]

\* settings.NEW_PLAYER_LOCATION_ID
NEW_PLAYER_LOCATION_ID == 1

\* No session is connected.
NoSessions == [i \in 1..Len(Refs) |-> 0]

NoLast == [op |-> "", inv |-> 0, line |-> LookLine, ret |-> "", raised |-> ""]

-----------------------------------------------------------------------------
\* The proxy's AMP client factory (AmpClientFactory), a
\* twisted.internet.protocol.ReconnectingClientFactory.  Delays are kept in
\* thousandths of a second.

\* AmpClientFactory.initialDelay and maxDelay, in seconds.
initialDelay == 1
maxDelay == 1

Milli == 1000

\* ReconnectingClientFactory.factor and jitter, in thousandths.
factor == 2718
jitter == 120

\* The standard deviations from the mean at which the jitter is sampled.
JitterDraws == {-1, 0, 1}

\* ReconnectingClientFactory.resetDelay
resetDelay(f) ==
    [f EXCEPT !.delay = initialDelay * Milli, !.capped = initialDelay * Milli,
              !.retries = 0, !.continueTrying = TRUE]

\* The factory of a proxy that has just called connectTCP.
NewFactory ==
    [state |-> "connecting", delay |-> initialDelay * Milli,
     capped |-> initialDelay * Milli, retries |-> 0, continueTrying |-> TRUE]

\* A back-off that is not cut at maxDelay.
Backoff_uncapped(delay) == (delay * factor) \div Milli

\* The delay grown by the factor and cut at maxDelay, before the jitter.
Backoff(delay) ==
    IF (delay * factor) \div Milli < maxDelay * Milli
    THEN (delay * factor) \div Milli ELSE maxDelay * Milli

\* ReconnectingClientFactory.retry with maxRetries = None: the delay is
\* random.normalvariate(capped, capped * jitter), sampled at draw deviations,
\* and the reconnector is scheduled after it.
retry(f, draw) ==
    IF ~f.continueTrying THEN [f EXCEPT !.state = "stopped"]
    ELSE LET capped == Backoff(f.delay)
         IN  [f EXCEPT !.retries = @ + 1,
                       !.capped = capped,
                       !.delay = capped + draw * ((capped * jitter) \div Milli),
                       !.state = "waiting"]

\* _prepare_at_load on a database that holds the first room and the admin.
InitStore ==
    /\ objects = (1 :> FirstRoom) @@ (2 :> FirstAdmin)
    /\ db = (1 :> Odata(FirstRoom)) @@ (2 :> Odata(FirstAdmin))
    /\ next_dbref = 3
    /\ issued = <<>>
    /\ trace = <<>>
    /\ last = NoLast
    /\ nops = 0
    /\ sessions = NoSessions
    /\ hooks = <<>>
    /\ factory = NewFactory
    /\ global_cmd_table = GlobalTable

Request == [objects |-> objects, db |-> db, next_dbref |-> next_dbref,
            trace |-> <<>>, err |-> "", errmsg |-> "", ret |-> ""]

\* The ids the create_object calls of a request returned, in call order.
Created(tr) ==
    LET ks == SelectSeq(tr, LAMBDA e : e.ev = "create_object")
    IN  [k \in 1..Len(ks) |-> ks[k].id]

\* The store, the record of the request and its outcome after a request.
Respond(R, op, inv, line) ==
    /\ R.next_dbref = next_dbref \/ R.next_dbref <= MaxId + 1
    /\ issued' = issued \o Created(R.trace)
    /\ objects' = R.objects
    /\ db' = R.db
    /\ next_dbref' = R.next_dbref
    /\ trace' = R.trace
    /\ last' = [op |-> op, inv |-> inv, line |-> line, ret |-> R.ret,
                raised |-> R.err]
    /\ nops' = nops + 1
    /\ UNCHANGED <<order, local_command_table, local_admin_command_table,
                   factory, global_cmd_table>>

\* A request that is no session event.
Commit(R, op, inv, line) ==
    /\ Respond(R, op, inv, line)
    /\ UNCHANGED <<sessions, hooks>>

\* ProxyAMP.send_through_object_command
send_through_object_command(object_id, input) ==
    /\ nops < MaxOps
    /\ Commit(IF object_id \in DOMAIN objects
              THEN execute_command(Request, object_id, input)
              ELSE Raise(Request, "InvalidObjectId", ""),
              "send", object_id, input)

\* ProxyAMP.create_player_object_command
create_player_object_command(username) ==
    /\ nops < MaxOps
    /\ Commit(create_object(Request, PlayerParent,
                            [NoKw EXCEPT !.name = username, !.location_id = NEW_PLAYER_LOCATION_ID]),
              "create_player", 0, LookLine)

----------------------------------------------------------------------------
\* Building of the world by the admin: @dig, @create, @open, @link, @zone,
\* @parent and @destroy.

Line(verb, words) == [verb |-> verb, switches |-> {}, words |-> words]

BuildInvokers == {2}

StoreTargets == {1, 3, 4}

StoreLines ==
    {Line("@dig", << <<"B">> >>), Line("@create", << <<"thing">> >>),
     Line("@open", << <<"north">>, <<"Door">> >>)}
    \cup {Line("@open", << <<"north">>, <<"Door", "=", RefOf(k)>> >>) :
             k \in StoreTargets}
    \cup {Line("@link", << <<RefOf(e), "=", RefOf(k)>> >>) :
             e \in {3, 4}, k \in StoreTargets}
    \cup {Line("@zone", << <<RefOf(t), "=", RefOf(z)>> >>) :
             t \in {2, 3, 4}, z \in {1, 3}}
    \cup {Line("@parent", << <<RefOf(t), "=", p>> >>) :
             t \in {3, 4}, p \in {"exit", "thing"}}
    \cup {Line("@destroy", << <<RefOf(t)>> >>) : t \in StoreTargets}

InitBuild ==
    /\ InitStore
    /\ order = Identity
    /\ local_command_table = NoTables
    /\ local_admin_command_table = NoTables

Usernames == {"kay"}

NextBuild ==
    \/ \E inv \in BuildInvokers, line \in StoreLines :
          send_through_object_command(inv, line)
    \/ \E username \in Usernames : create_player_object_command(username)

SpecBuild == InitBuild /\ [][NextBuild]_vars

----------------------------------------------------------------------------
\* Play in a small built world: two rooms, two exits that share an alias,
\* the admin and a player.

RoomB == [FirstRoom EXCEPT !.name = "B"]

Door ==
    [cls |-> ExitParent, parent |-> ExitParent, name |-> "Door",
     aliases |-> <<"north">>, location_id |-> 1, zone_id |-> 0,
     destination_id |-> 3, description |-> "", internal_description |-> "",
     attributes |-> <<>>]

User ==
    [cls |-> PlayerParent, parent |-> PlayerParent, name |-> "user",
     aliases |-> <<>>, location_id |-> 1, zone_id |-> 0, destination_id |-> 0,
     description |-> "", internal_description |-> "", attributes |-> <<>>]

Gate ==
    [cls |-> ExitParent, parent |-> ExitParent, name |-> "Gate",
     aliases |-> <<"North", "loop">>, location_id |-> 1, zone_id |-> 0,
     destination_id |-> 1, description |-> "", internal_description |-> "",
     attributes |-> <<>>]

World ==
    (1 :> FirstRoom) @@ (2 :> FirstAdmin) @@ (3 :> RoomB) @@ (4 :> Door)
    @@ (5 :> User) @@ (6 :> Gate)

RoomTables(t) == [c \in Classes |-> IF c = RoomParent THEN t ELSE {}]

InitPlay ==
    /\ objects = World
    /\ db = [i \in DOMAIN World |-> Odata(World[i])]
    /\ next_dbref = 7
    /\ issued = <<>>
    /\ trace = <<>>
    /\ last = NoLast
    /\ nops = 0
    /\ sessions = NoSessions
    /\ hooks = <<>>
    /\ factory = NewFactory
    /\ global_cmd_table = GlobalTable
    /\ order \in {Identity, Reversed}
    /\ local_command_table \in {NoTables, RoomTables({"look", "pray", "crash"})}
    /\ local_admin_command_table \in {NoTables, RoomTables({"look", "@teleport"})}

PlayInvokers == {1, 2, 5}

PlayLines ==
    {Line(v, <<>>) : v \in {"north", "loop", "look", "Look", "xyzzy", "pray",
                            "crash", "@teleport"}}
    \cup {Line("go", << <<"#4">> >>),
          Line("@tel", << <<"#5", "=", "#3">> >>),
          Line("@teleport", << <<"#5", "=", "#1">> >>),
          Line("@teleport", << <<"#9", "=", "#1">> >>),
          Line("@parent", << <<"#5", "=", "room">> >>),
          Line("@destroy", << <<"#3">> >>)}

NextPlay ==
    \E inv \in PlayInvokers, line \in PlayLines :
        send_through_object_command(inv, line)

SpecPlay == InitPlay /\ [][NextPlay]_vars

-----------------------------------------------------------------------------
\* Verbs that are exit aliases: the admin and a player in a room whose exit
\* has the name of a command as an alias, under command tables that define
\* 'go' or do not.

ExitWorlds ==
    {(1 :> FirstRoom) @@ (2 :> FirstAdmin) @@ (3 :> RoomB)
       @@ (4 :> [Door EXCEPT !.aliases = a]) @@ (5 :> User) :
          a \in {<<"look">>, <<"north">>, <<"n", "Look">>}}

ExitLines == {Line(v, <<>>) : v \in {"look", "Look", "north", "xyzzy"}}

InitExits ==
    /\ objects \in ExitWorlds
    /\ db = [i \in DOMAIN objects |-> Odata(objects[i])]
    /\ next_dbref = 6
    /\ issued = <<>>
    /\ trace = <<>>
    /\ last = NoLast
    /\ nops = 0
    /\ sessions = NoSessions
    /\ hooks = <<>>
    /\ factory = NewFactory
    /\ global_cmd_table \in {GlobalTable, {"look"}}
    /\ order = Identity
    /\ local_command_table \in {NoTables, RoomTables({"look"}), RoomTables({"go"})}
    /\ local_admin_command_table = NoTables

NextExits ==
    \E inv \in {2, 5}, line \in ExitLines : send_through_object_command(inv, line)

SpecExits == InitExits /\ [][NextExits]_vars

----------------------------------------------------------------------------
\* The staff commands, each with the inputs of its error paths and of its
\* normal path, typed by the admin in a world of one room, the admin and an
\* exit that is a member of the room's zone.

MaxStaffOps == 2

LineSw(verb, switches, words) == [verb |-> verb, switches |-> switches, words |-> words]

Loop ==
    [cls |-> ExitParent, parent |-> ExitParent, name |-> "Door",
     aliases |-> <<"north">>, location_id |-> 1, zone_id |-> 1,
     destination_id |-> 1, description |-> "", internal_description |-> "",
     attributes |-> <<>>]

StaffWorld == (1 :> FirstRoom) @@ (2 :> FirstAdmin) @@ (3 :> Loop)

StaffLines ==
    {Line(v, <<>>) : v \in GlobalAdminTable}
    \cup {Line(v, << <<"#3">> >>) :
             v \in {"@describe", "@name", "@zone", "@parent", "@alias",
                    "@link", "@set", "@destroy", "@unlink", "@zmo"}}
    \cup {Line(v, << <<"xyzzy", "=", "thing">> >>) :
             v \in {"@teleport", "@describe", "@name", "@zone", "@parent",
                    "@alias", "@link", "@set"}}
    \cup {Line(v, << <<"xyzzy">> >>) : v \in {"@zmo", "@destroy", "@unlink"}}
    \cup {Line(v, << <<"#3", "=", "xyzzy">> >>) :
             v \in {"@teleport", "@zone", "@link"}}
    \cup {Line("@dig", << <<"B">> >>),
          Line("@create", << <<"thing">> >>),
          Line("@teleport", << <<"#1", "=", "#2">> >>),
          Line("@teleport", << <<"#3", "=", "#3">> >>),
          Line("@tel", << <<"#3", "=", "#2">> >>),
          Line("@teleport", << <<"#9", "=", "#1">> >>),
          Line("@desc", << <<"#3", "=", "a", "door">> >>),
          LineSw("@describe", {"internal"}, << <<"#3", "=", "a", "hall">> >>),
          Line("@name", << <<"#3", "=", "Gate">> >>),
          Line("@zone", << <<"#2", "=", "#1">> >>),
          Line("@zone", << <<"#3", "=">> >>),
          Line("@zmo", << <<"#1">> >>),
          LineSw("@zmo", {"empty"}, << <<"#1">> >>),
          LineSw("@zmo", {"raze"}, << <<"#1">> >>),
          LineSw("@zmo", {"rase"}, << <<"#1">> >>),
          Line("@parent", << <<"#3", "=">> >>),
          Line("@parent", << <<"#3", "=", "bogus">> >>),
          Line("@parent", << <<"#3", "=", "thing">> >>),
          Line("@alias", << <<"#3", "=", "n", "out">> >>),
          Line("@open", << <<"north">> >>),
          Line("@open", << <<"north">>, <<"Door", "=", "xyzzy">> >>),
          Line("@open", << <<"north">>, <<"Door", "=", "#1">> >>),
          Line("@unlink", << <<"#1">> >>),
          Line("@link", << <<"#1", "=", "#1">> >>),
          Line("@link", << <<"#3", "=", "#3">> >>),
          Line("@link", << <<"#3", "=", "#2">> >>),
          Line("@set", << <<"#3", "=", "colour">> >>),
          Line("@set", << <<"#3", "=", "colour", ":", "red">> >>),
          Line("@set", << <<"#3", "=", "locked", ":", "true">> >>)}

InitStaff ==
    /\ objects = StaffWorld
    /\ db = [i \in DOMAIN StaffWorld |-> Odata(StaffWorld[i])]
    /\ next_dbref = 4
    /\ issued = <<>>
    /\ trace = <<>>
    /\ last = NoLast
    /\ nops = 0
    /\ sessions = NoSessions
    /\ hooks = <<>>
    /\ factory = NewFactory
    /\ global_cmd_table = GlobalTable
    /\ order \in {Identity, Reversed}
    /\ local_command_table = NoTables
    /\ local_admin_command_table = NoTables

NextStaff ==
    \E inv \in BuildInvokers, line \in StaffLines :
        nops < MaxStaffOps /\ send_through_object_command(inv, line)

SpecStaff == InitStaff /\ [][NextStaff]_vars

----------------------------------------------------------------------------
\* contextual_object_search and _find_name_or_alias_match called on worlds
\* of two rooms, a player, the admin and two things whose places, names and
\* aliases vary.

Thing(name, aliases, location_id) ==
    [cls |-> ThingParent, parent |-> ThingParent, name |-> name,
     aliases |-> aliases, location_id |-> location_id, zone_id |-> 0,
     destination_id |-> 0, description |-> "", internal_description |-> "",
     attributes |-> <<>>]

SearchWorlds ==
    {(1 :> FirstRoom) @@ (2 :> FirstAdmin) @@ (3 :> RoomB)
       @@ (4 :> Thing(tn, ta, tl)) @@ (5 :> [User EXCEPT !.location_id = ul])
       @@ (6 :> Thing(xn, xa, xl)) :
          tn \in {"rock", "north"}, ta \in {<<>>, <<"#4">>},
          tl \in {0, 1, 3, 5}, ul \in {0, 1},
          xn \in {"north", "#4"}, xa \in {<<>>, <<"#4">>, <<"North">>},
          xl \in {1, 5}}

MaxSearches == 1

SearchInvokers == {2, 5}

SearchTexts == {"#4", "#1", "#3", "north", "NORTH", "me", "Here"}

InitSearch ==
    /\ objects \in SearchWorlds
    /\ db = [i \in DOMAIN objects |-> Odata(objects[i])]
    /\ next_dbref = 7
    /\ issued = <<>>
    /\ trace = <<>>
    /\ last = NoLast
    /\ nops = 0
    /\ sessions = NoSessions
    /\ hooks = <<>>
    /\ factory = NewFactory
    /\ global_cmd_table = GlobalTable
    /\ order \in {Identity, Reversed}
    /\ local_command_table = NoTables
    /\ local_admin_command_table = NoTables

\* One call; the result is kept as an event, 0 for None.
Called(op, inv, desc, r) ==
    /\ nops < MaxSearches
    /\ trace' = <<Ev(op, inv, desc, r.id)>>
    /\ last' = [op |-> op, inv |-> inv, line |-> Line(desc, <<>>), ret |-> "",
                raised |-> r.err]
    /\ nops' = nops + 1
    /\ UNCHANGED <<issued, objects, db, next_dbref, order, local_command_table,
                   local_admin_command_table, sessions, hooks, factory,
                   global_cmd_table>>

\* invoker.contextual_object_search(desc)
search(inv, desc) ==
    Called("search", inv, desc, contextual_object_search(objects, inv, <<desc>>))

\* self._find_name_or_alias_match(obj.get_contents(), desc)
match_contents(obj, desc) ==
    Called("match", obj, desc,
           Found(find_name_or_alias_match(objects, get_object_contents(objects, obj), desc)))

NextSearch ==
    \/ \E inv \in SearchInvokers, desc \in SearchTexts : search(inv, desc)
    \/ \E obj \in DOMAIN objects, desc \in SearchTexts : match_contents(obj, desc)

SpecSearch == InitSearch /\ [][NextSearch]_vars

-----------------------------------------------------------------------------
\* _find_name_or_alias_match called on the contents of a room that holds the
\* admin and three things whose names score differently against the text.

FuzzyNames == {"Door", "door", "rock"}

FuzzyWorlds ==
    {(1 :> FirstRoom) @@ (2 :> FirstAdmin) @@ (3 :> Thing(a, <<>>, 1))
       @@ (4 :> Thing(b, <<"gate">>, 1)) @@ (5 :> Thing(c, <<>>, l)) :
          a \in FuzzyNames, b \in FuzzyNames, c \in FuzzyNames, l \in {0, 1}}

FuzzyTexts == {"door", "Do", "xyzzy", "Gate"}

InitFuzzy ==
    /\ objects \in FuzzyWorlds
    /\ db = [i \in DOMAIN objects |-> Odata(objects[i])]
    /\ next_dbref = 6
    /\ issued = <<>>
    /\ trace = <<>>
    /\ last = NoLast
    /\ nops = 0
    /\ sessions = NoSessions
    /\ hooks = <<>>
    /\ factory = NewFactory
    /\ global_cmd_table = GlobalTable
    /\ order \in {Identity, Reversed}
    /\ local_command_table = NoTables
    /\ local_admin_command_table = NoTables

NextFuzzy == \E desc \in FuzzyTexts : match_contents(1, desc)

SpecFuzzy == InitFuzzy /\ [][NextFuzzy]_vars

----------------------------------------------------------------------------
\* The zone of the first room emptied and razed by the admin; its members
\* are the exit, or the exit and the admin with the exit linked to the admin.

ZoneWorld ==
    (1 :> FirstRoom) @@ (2 :> [FirstAdmin EXCEPT !.zone_id = 1])
    @@ (3 :> [Loop EXCEPT !.destination_id = 2])

ZoneLines ==
    {LineSw("@zmo", {"raze"}, << <<"#1">> >>),
     LineSw("@zmo", {"empty"}, << <<"#1">> >>),
     Line("@zmo", << <<"#1">> >>),
     Line("@zone", << <<"#2", "=", "#1">> >>),
     Line("@zone", << <<"#3", "=">> >>),
     Line("@link", << <<"#3", "=", "#2">> >>),
     Line("@unlink", << <<"#3">> >>),
     Line("@create", << <<"thing">> >>)}

InitZone ==
    /\ \E w \in {StaffWorld, ZoneWorld} :
          /\ objects = w
          /\ db = [i \in DOMAIN w |-> Odata(w[i])]
    /\ next_dbref = 4
    /\ issued = <<>>
    /\ trace = <<>>
    /\ last = NoLast
    /\ nops = 0
    /\ sessions = NoSessions
    /\ hooks = <<>>
    /\ factory = NewFactory
    /\ global_cmd_table = GlobalTable
    /\ order \in {Identity, Reversed}
    /\ local_command_table = NoTables
    /\ local_admin_command_table = NoTables

NextZone == \E line \in ZoneLines : send_through_object_command(2, line)

SpecZone == InitZone /\ [][NextZone]_vars

----------------------------------------------------------------------------
\* Exits opened and walked by the admin: two rooms, with or without an exit
\* 'north' already in the first room.

OpenWorlds ==
    {(1 :> FirstRoom) @@ (2 :> FirstAdmin) @@ (3 :> RoomB),
     (1 :> FirstRoom) @@ (2 :> FirstAdmin) @@ (3 :> RoomB) @@ (4 :> Door)}

OpenLines ==
    {Line("@open", << <<"north">>, <<"Door", "=", "#3">> >>),
     Line("@open", << <<"north">>, <<"Door", "=", "#1">> >>),
     Line("@open", << <<"south">>, <<"Gate", "=", "#3">> >>),
     Line("@open", << <<"north">>, <<"Door">> >>),
     Line("north", <<>>), Line("south", <<>>), Line("look", <<>>)}

InitOpen ==
    /\ \E w \in OpenWorlds :
          /\ objects = w
          /\ db = [i \in DOMAIN w |-> Odata(w[i])]
          /\ next_dbref = Cardinality(DOMAIN w) + 1
    /\ issued = <<>>
    /\ trace = <<>>
    /\ last = NoLast
    /\ nops = 0
    /\ sessions = NoSessions
    /\ hooks = <<>>
    /\ factory = NewFactory
    /\ global_cmd_table = GlobalTable
    /\ order \in {Identity, Reversed}
    /\ local_command_table = NoTables
    /\ local_admin_command_table = NoTables

NextOpen == \E line \in OpenLines : send_through_object_command(2, line)

SpecOpen == InitOpen /\ [][NextOpen]_vars

----------------------------------------------------------------------------
\* The object store called directly: create_object with parents the loader
\* resolves and one it does not, get_object, destroy_object, and a change
\* of an object followed by save_object and reload_object.

MaxStoreOps == 3

StoreIds == 1..(MaxId + 1)

StoreParents == {ThingParent, RoomParent, "bogus"}

\* Changes made to an object before it is saved.
StoreChanges ==
    {Line("name", << <<"Gate">> >>),
     Line("location", << <<"#1">> >>),
     Line("location", << <<"#2">> >>),
     Line("attribute", << <<"locked", "true">> >>),
     Line("internal_description", << <<"hall">> >>)}

\* The object after one of these changes.
Changed(o, change) ==
    CASE change.verb = "name" -> [o EXCEPT !.name = change.words[1][1]]
      [] change.verb = "location" ->
           set_location(o, IdOfRef(change.words[1][1]))
      [] change.verb = "attribute" ->
           [o EXCEPT !.attributes = Put(@, change.words[1][1], change.words[1][2])]
      [] OTHER -> [o EXCEPT !.internal_description = change.words[1][1]]

\* object_store.create_object(parent_path, name='thing', location_id=...)
call_create_object(parent_path, location_id) ==
    /\ nops < MaxStoreOps
    /\ Commit(create_object(Request, parent_path,
                            [NoKw EXCEPT !.name = "thing",
                                         !.location_id = location_id]),
              "create_object", location_id, Line(parent_path, <<>>))

\* object_store.get_object(obj_id)
call_get_object(obj_id) ==
    /\ nops < MaxStoreOps
    /\ Commit(LET r == get_object(objects, obj_id)
              IN  IF r.err # "" THEN Raise(Request, r.err, "")
                  ELSE Log(Request, "get_object", r.id, "", 0),
              "get_object", obj_id, LookLine)

\* object_store.destroy_object(obj), obj an instance the store handed out.
call_destroy_object(obj_id) ==
    /\ nops < MaxStoreOps
    /\ obj_id < next_dbref
    /\ Commit(destroy_object(Request, obj_id), "destroy_object", obj_id, LookLine)

\* A change of a cached object, then obj.save() and
\* object_store.reload_object(obj).
call_save_reload(obj_id, change) ==
    /\ nops < MaxStoreOps
    /\ obj_id \in DOMAIN objects
    /\ Commit(reload_object(
                  save_object(Request, obj_id, Changed(objects[obj_id], change)),
                  obj_id),
              "save_reload", obj_id, change)

InitCalls ==
    /\ InitStore
    /\ order = Identity
    /\ local_command_table = NoTables
    /\ local_admin_command_table = NoTables

NextCalls ==
    \/ \E parent_path \in StoreParents, location_id \in {0, 1} :
          call_create_object(parent_path, location_id)
    \/ \E obj_id \in StoreIds : call_get_object(obj_id)
    \/ \E obj_id \in StoreIds : call_destroy_object(obj_id)
    \/ \E obj_id \in StoreIds, change \in StoreChanges :
          call_save_reload(obj_id, change)

SpecCalls == InitCalls /\ [][NextCalls]_vars

-----------------------------------------------------------------------------
\* Re-parenting through the objects' own interface: obj.parent is set and
\* saved without a check, and the object is re-loaded from its document.

ReloadParents == {ThingParent, "bogus"}

\* obj.parent = parent_path, then obj.save().
call_set_parent_save(obj_id, parent_path) ==
    /\ nops < MaxStoreOps
    /\ obj_id \in DOMAIN objects
    /\ Commit(save_object(Request, obj_id,
                          [objects[obj_id] EXCEPT !.parent = parent_path]),
              "set_parent_save", obj_id, Line(parent_path, <<>>))

\* object_store.reload_object(obj), obj an instance of the cache.
call_reload_object(obj_id) ==
    /\ nops < MaxStoreOps
    /\ obj_id \in DOMAIN objects
    /\ Commit(reload_object(Request, obj_id), "reload_object", obj_id, LookLine)

NextReload ==
    \/ \E obj_id \in StoreIds, parent_path \in ReloadParents :
          call_set_parent_save(obj_id, parent_path)
    \/ \E obj_id \in StoreIds : call_reload_object(obj_id)
    \/ \E obj_id \in StoreIds : call_get_object(obj_id)

SpecReload == InitCalls /\ [][NextReload]_vars

----------------------------------------------------------------------------
\* Sessions of the proxy on the objects of the admin and of a player. The
\* proxy counts the sessions that control an object and sends the two
\* session commands over its one AMP connection, which delivers them in the
\* order sent.

MaxSessionOps == 5

MaxSessions == 2

SessionIds == {2, 3}

\* after_session_connect_event(): pass
after_session_connect_event(S, id) ==
    Log(S, "after_session_connect_event", id, "", 0)

\* after_session_disconnect_event(): pass
after_session_disconnect_event(S, id) ==
    Log(S, "after_session_disconnect_event", id, "", 0)

\* ProxyAMP.notify_first_session_connected_on_object_command
notify_first_session_connected_on_object_command(S, object_id) ==
    LET r == get_object(S.objects, object_id)
    IN  IF r.err # "" THEN Raise(S, r.err, "")
        ELSE after_session_connect_event(S, r.id)

\* ProxyAMP.trigger_after_session_disconnect_event_object_command
trigger_after_session_disconnect_event_object_command(S, object_id) ==
    LET r == get_object(S.objects, object_id)
    IN  IF r.err # "" THEN Raise(S, r.err, "")
        ELSE after_session_disconnect_event(S, r.id)

\* The session hooks a request ran, in call order.
HookCalls(tr) ==
    SelectSeq(tr, LAMBDA e : e.ev \in {"after_session_connect_event",
                                       "after_session_disconnect_event"})

\* A proxy that sends the connect command for every session that connects.
session_connect_every_time(object_id) ==
    /\ nops < MaxSessionOps
    /\ sessions[object_id] < MaxSessions
    /\ sessions' = [sessions EXCEPT ![object_id] = @ + 1]
    /\ \E R \in {notify_first_session_connected_on_object_command(Request, object_id)} :
          /\ Respond(R, "session_connect", object_id, LookLine)
          /\ hooks' = hooks \o HookCalls(R.trace)

\* A session that controls the object connects to the proxy; the proxy
\* sends NotifyFirstSessionConnectedOnObjectCmd when it is the first.
session_connect(object_id) ==
    /\ nops < MaxSessionOps
    /\ sessions[object_id] < MaxSessions
    /\ sessions' = [sessions EXCEPT ![object_id] = @ + 1]
    /\ \E R \in {IF sessions[object_id] = 0
                 THEN notify_first_session_connected_on_object_command(Request, object_id)
                 ELSE Request} :
          /\ Respond(R, "session_connect", object_id, LookLine)
          /\ hooks' = hooks \o HookCalls(R.trace)

\* A session that controls the object disconnects; the proxy sends
\* TriggerAtSessionDisconnectForObjectCmd when it was the last.
session_disconnect(object_id) ==
    /\ nops < MaxSessionOps
    /\ sessions[object_id] > 0
    /\ sessions' = [sessions EXCEPT ![object_id] = @ - 1]
    /\ \E R \in {IF sessions[object_id] = 1
                 THEN trigger_after_session_disconnect_event_object_command(Request, object_id)
                 ELSE Request} :
          /\ Respond(R, "session_disconnect", object_id, LookLine)
          /\ hooks' = hooks \o HookCalls(R.trace)

InitSessions ==
    /\ objects = (1 :> FirstRoom) @@ (2 :> FirstAdmin) @@ (3 :> User)
    /\ db = [i \in DOMAIN objects |-> Odata(objects[i])]
    /\ next_dbref = 4
    /\ issued = <<>>
    /\ trace = <<>>
    /\ last = NoLast
    /\ nops = 0
    /\ sessions = NoSessions
    /\ hooks = <<>>
    /\ factory = NewFactory
    /\ global_cmd_table = GlobalTable
    /\ order = Identity
    /\ local_command_table = NoTables
    /\ local_admin_command_table = NoTables

NextSessions ==
    \/ \E object_id \in SessionIds : session_connect(object_id)
    \/ \E object_id \in SessionIds : session_disconnect(object_id)
    \/ call_destroy_object(3)

SpecSessions == InitSessions /\ [][NextSessions]_vars

----------------------------------------------------------------------------
\* Output on its way to the sessions: emit_to calls EmitToObjectCmd on the
\* proxy, whose responder hands the line to the session manager. The k-th
\* session on an object is named by the object's id and k.

EmitLines ==
    {Line("xyzzy", <<>>), Line("look", <<>>),
     Line("@teleport", << <<"#3", "=", "#1">> >>)}

\* A session manager that hands every line to the admin's sessions.
emit_to_sessions_of_admin(sess, object_id, message) ==
    [k \in 1..sess[2] |-> Ev("deliver", 2, message, k)]

\* SessionManager.emit_to_object(object_id, message): the deliveries, one to
\* each session that controls the object.
emit_to_object(sess, object_id, message) ==
    [k \in 1..sess[object_id] |-> Ev("deliver", object_id, message, k)]

\* ProxyAMP.emit_to_object_command
emit_to_object_command(sess, object_id, message) ==
    emit_to_object(sess, object_id, message)

\* The record of a request with the deliveries each emit_to caused.
RECURSIVE Carried(_, _)
Carried(tr, sess) ==
    IF tr = <<>> THEN <<>>
    ELSE IF Head(tr).ev = "emit"
         THEN <<Head(tr)>> \o emit_to_object_command(sess, Head(tr).id, Head(tr).msg)
              \o Carried(Tail(tr), sess)
    ELSE <<Head(tr)>> \o Carried(Tail(tr), sess)

\* send_through_object_command with the proxy's side of its emits.
send_and_deliver(object_id, input) ==
    /\ nops < MaxSessionOps
    /\ object_id \in DOMAIN objects
    /\ \E R \in {execute_command(Request, object_id, input)} :
          Commit([R EXCEPT !.trace = Carried(R.trace, sessions)],
                 "send", object_id, input)

NextEmits ==
    \/ \E object_id \in SessionIds : session_connect(object_id)
    \/ \E object_id \in SessionIds : session_disconnect(object_id)
    \/ \E object_id \in SessionIds, input \in EmitLines :
          send_and_deliver(object_id, input)

SpecEmits == InitSessions /\ [][NextEmits]_vars

-----------------------------------------------------------------------------
\* The admin teleports the objects of a world of one room, the admin and a
\* player.

TeleportIds == {1, 2, 3}

TeleportLines ==
    {Line(v, << <<RefOf(t), "=", RefOf(d)>> >>) :
        v \in {"@teleport", "@tel"}, t \in TeleportIds, d \in TeleportIds}
    \cup {LookLine}

NextTeleport ==
    \E input \in TeleportLines : send_through_object_command(2, input)

SpecTeleport == InitSessions /\ [][NextTeleport]_vars

-----------------------------------------------------------------------------
\* Sessions on a player the admin destroys: the proxy keeps sending the
\* player's input and its session events.

GoneLines == {Line("look", <<>>), Line("xyzzy", <<>>)}

NextGone ==
    \/ \E object_id \in SessionIds : session_connect(object_id)
    \/ \E object_id \in SessionIds : session_disconnect(object_id)
    \/ \E input \in GoneLines : send_through_object_command(3, input)
    \/ send_through_object_command(2, Line("@destroy", << <<"#3">> >>))

SpecGone == InitSessions /\ [][NextGone]_vars

-----------------------------------------------------------------------------
\* The link between the proxy and the world: the factory's connection events
\* and the requests the proxy sends while it is connected.

\* Failed attempts in a row.
MaxRetries == 3

ConnectLines == {Line("look", <<>>), Line("@dig", << <<"B">> >>)}

\* A connection event: it changes the factory and nothing of the world.
Connection(f) ==
    /\ factory' = f
    /\ UNCHANGED <<issued, objects, db, next_dbref, order, local_command_table,
                   local_admin_command_table, trace, last, nops, sessions,
                   hooks, global_cmd_table>>

\* AmpClientFactory.buildProtocol: the attempt succeeded.
buildProtocol ==
    /\ factory.state = "connecting"
    /\ Connection([resetDelay(factory) EXCEPT !.state = "connected"])

\* AmpClientFactory.clientConnectionLost
clientConnectionLost ==
    /\ factory.state = "connected"
    /\ \E draw \in JitterDraws : Connection(retry(factory, draw))

\* AmpClientFactory.clientConnectionFailed
clientConnectionFailed ==
    /\ factory.state = "connecting"
    /\ factory.retries < MaxRetries
    /\ \E draw \in JitterDraws : Connection(retry(factory, draw))

\* The call retry scheduled comes due: the connector connects again.
reconnector ==
    /\ factory.state = "waiting"
    /\ Connection([factory EXCEPT !.state = "connecting"])

send_while_connected(object_id, input) ==
    /\ factory.state = "connected"
    /\ send_through_object_command(object_id, input)

NextConnect ==
    \/ buildProtocol
    \/ clientConnectionLost
    \/ clientConnectionFailed
    \/ reconnector
    \/ \E input \in ConnectLines : send_while_connected(2, input)

InitConnect ==
    /\ InitStore
    /\ order \in {Identity, Reversed}
    /\ local_command_table = NoTables
    /\ local_admin_command_table = NoTables



SpecConnect == InitConnect /\ [][NextConnect]_vars

----------------------------------------------------------------------------
\* Processes of the server over one database: a process is constructed,
\* prepares its store at load, creates and destroys objects, and is followed
\* by the next process on the documents it left.

MaxRunOps == 5

\* The ids of the documents in the order the database lists them.
RECURSIVE DocIds(_)
DocIds(ids) ==
    IF ids = {} THEN <<>>
    ELSE LET m == CHOOSE i \in ids : \A j \in ids : i <= j
         IN  <<m>> \o DocIds(ids \ {m})

\* _create_initial_room
create_initial_room(S) ==
    create_object(S, RoomParent, [NoKw EXCEPT !.name = "And so it begins..."])

\* A _prep_db that creates the first room whatever the database holds.
prep_db_always_creating(S) == create_initial_room(S)

\* _prep_db
prep_db(S) == IF DOMAIN S.db = {} THEN create_initial_room(S) ELSE S

\* The loop of _load_objects_into_ram over the document ids left to load.
RECURSIVE load_loop(_, _)
load_loop(S, ids) ==
    IF ids = <<>> THEN S
    ELSE LET S1 == load_object(S, Head(ids))
         IN  IF S1.err # "" THEN S1
             ELSE load_loop([S1 EXCEPT !.next_dbref =
                                 IF Head(ids) >= @ THEN Head(ids) + 1 ELSE @],
                            Tail(ids))

\* _load_objects_into_ram
load_objects_into_ram(S) == load_loop(S, DocIds(DOMAIN S.db))

\* _prepare_at_load
prepare_at_load(S) ==
    LET S1 == prep_db([S EXCEPT !.objects = <<>>])
    IN  IF S1.err # "" THEN S1 ELSE load_objects_into_ram(S1)

\* InMemoryObjectStore.__init__ of a new process on the documents at hand.
Constructed ==
    [objects |-> <<>>, db |-> db, next_dbref |-> 1,
     trace |-> <<>>, err |-> "", errmsg |-> "", ret |-> ""]

\* A document whose parent the loader does not resolve.
Orphan == [Odata(Thing("thing", <<>>, 1)) EXCEPT !.parent = "bogus"]

\* Databases a first process may find.
PersistedDbs ==
    {<<>>,
     (1 :> Odata(FirstRoom)),
     (1 :> Odata(FirstRoom)) @@ (2 :> Odata(FirstAdmin)),
     (1 :> Odata(FirstRoom)) @@ (3 :> Odata(Thing("thing", <<>>, 1))),
     (1 :> Odata(FirstRoom)) @@ (2 :> Orphan)
        @@ (3 :> Odata(Thing("thing", <<>>, 1))),
     (1 :> Odata(FirstRoom)) @@ (2 :> Odata(FirstAdmin)) @@ (3 :> Orphan)}

\* The process at hand loaded its store and serves requests.
Running == last.op # "" /\ ~(last.op = "startup" /\ last.raised # "")

\* A new process: the constructor, then _prepare_at_load.
startup ==
    /\ nops < MaxRunOps
    /\ Commit(prepare_at_load(Constructed), "startup", 0, LookLine)

\* create_object in a running process.
run_create_object(parent_path) ==
    /\ nops < MaxRunOps
    /\ Running
    /\ Commit(create_object(Request, parent_path,
                            [NoKw EXCEPT !.name = "thing", !.location_id = 1]),
              "create_object", 0, Line(parent_path, <<>>))

\* destroy_object in a running process.
run_destroy_object(obj_id) ==
    /\ nops < MaxRunOps
    /\ Running
    /\ obj_id \in DOMAIN objects
    /\ Commit(destroy_object(Request, obj_id), "destroy_object", obj_id, LookLine)

InitRuns ==
    /\ objects = <<>>
    /\ db \in PersistedDbs
    /\ next_dbref = 1
    /\ issued = <<>>
    /\ trace = <<>>
    /\ last = NoLast
    /\ nops = 0
    /\ sessions = NoSessions
    /\ hooks = <<>>
    /\ factory = NewFactory
    /\ global_cmd_table = GlobalTable
    /\ order = Identity
    /\ local_command_table = NoTables
    /\ local_admin_command_table = NoTables

NextRuns ==
    \/ startup
    \/ \E parent_path \in {ThingParent, "bogus"} : run_create_object(parent_path)
    \/ \E obj_id \in StoreIds : run_destroy_object(obj_id)

SpecRuns == InitRuns /\ [][NextRuns]_vars

----------------------------------------------------------------------------
\* Reading the record of a request.

HasEv(tr, ev, id) == \E k \in 1..Len(tr) : tr[k].ev = ev /\ tr[k].id = id

\* Index of the first event of that kind, 0 when there is none.
FirstEv(tr, ev) ==
    IF \E k \in 1..Len(tr) : tr[k].ev = ev
    THEN CHOOSE k \in 1..Len(tr) : tr[k].ev = ev /\ \A j \in 1..(k-1) : tr[j].ev # ev
    ELSE 0

\* The object the request's destroy() was called on, 0 when it made none.
Destroyed(tr) == IF FirstEv(tr, "destroy") = 0 THEN 0 ELSE tr[FirstEv(tr, "destroy")].id

\* The request's destroy() ran to its end.
DestroyCompleted(tr) ==
    Destroyed(tr) # 0 /\ HasEv(tr, "destroy_object", Destroyed(tr))

Removed(tr) == {tr[k].id : k \in {j \in 1..Len(tr) : tr[j].ev = "destroy_object"}}

LinkedExits(objs, x) ==
    {e \in DOMAIN objs : objs[e].cls = "exit" /\ objs[e].destination_id = x}

ZoneMembers(objs, x) == {m \in DOMAIN objs : objs[m].zone_id = x}

----------------------------------------------------------------------------
\* C1: over any sequence of create_object and destroy operations in one
\* process lifetime, every id create_object returns is strictly greater than
\* every id it returned before, so no id is handed out twice, destroyed
\* objects' ids included.
C1_IdsStrictlyIncrease ==
    \A i, j \in 1..Len(issued) : i < j => issued[i] < issued[j]

\* An object was created, destroyed, and the last request created another.
C1_CreateAfterDestroy ==
    /\ Len(issued) >= 2
    /\ issued[1] \notin DOMAIN objects
    /\ Len(Created(trace)) > 0

\* C2: destroy(obj) first destroys every exit whose destination is obj, then
\* clears and persists the zone of every object zoned to obj, and only then
\* removes obj; the former zone members are still in the store afterwards.
C2_DestroyOrder ==
    [][DestroyCompleted(trace') =>
        LET x == Destroyed(trace')
            tr == trace'
            kx == CHOOSE k \in 1..Len(tr) : tr[k].ev = "destroy_object" /\ tr[k].id = x
            exits == LinkedExits(objects, x)
            members == ZoneMembers(objects, x) \ (exits \cup {x})
        IN  /\ \A e \in exits :
                  \E k \in 1..(kx - 1) : tr[k].ev = "destroy_object" /\ tr[k].id = e
            /\ \A m \in members :
                  /\ \E k \in 1..(kx - 2) :
                        /\ tr[k].ev = "clear_zone" /\ tr[k].id = m
                        /\ tr[k + 1].ev = "save" /\ tr[k + 1].id = m
                        /\ \A j \in 1..Len(tr) :
                              (tr[j].ev = "destroy_object" /\ tr[j].id \in exits)
                                  => j < k
                  /\ m \in DOMAIN objects' /\ objects'[m].zone_id = 0
                  /\ m \in DOMAIN db' /\ db'[m].zone_id = 0
    ]_vars

C4_NoDanglingAfterDestroy ==
    DestroyCompleted(trace) =>
        \A r \in Removed(trace), i \in DOMAIN objects :
            objects[i].destination_id # r /\ objects[i].zone_id # r

----------------------------------------------------------------------------
\* Reading the record of a move and of a dispatch.

MoveEvents ==
    {"before_object_leaves_event", "before_object_enters_event", "save",
     "after_object_leaves_event", "after_object_enters_event", "input"}

\* The hook calls, the save and the commands run between the start and the
\* end of the request's move_to.
MoveSteps(tr) ==
    SelectSeq(SubSeq(tr, FirstEv(tr, "move_to") + 1, FirstEv(tr, "move_to_done") - 1),
              LAMBDA e : e.ev \in MoveEvents)

MoveCompleted(tr) == FirstEv(tr, "move_to_done") # 0

Step(e, ev, id, loc) == e.ev = ev /\ e.id = id /\ e.loc = loc

Registered(table, verb) ==
    \E n \in table : n = Lower(verb) \/ Lower(verb) \in CmdAliases(n)

\* The exits in the invoker's location with an alias equal to the verb.
ExitAliasHits(objs, inv, verb) ==
    {e \in DOMAIN objs :
        /\ objs[inv].location_id # 0
        /\ objs[e].location_id = objs[inv].location_id
        /\ objs[e].cls = "exit"
        /\ \E a \in 1..Len(objs[e].aliases) : Lower(objs[e].aliases[a]) = Lower(verb)}

\* The first table, in the handler's order, that registers the verb for
\* this invoker; "" when none does.
FirstTable(objs, inv, verb) ==
    LET loc == objs[inv].location_id
        admin == objs[inv].cls = "admin"
    IN  IF loc # 0 /\ admin /\ Registered(local_admin_command_table[objs[loc].cls], verb)
        THEN "local_admin"
        ELSE IF loc # 0 /\ Registered(local_command_table[objs[loc].cls], verb)
        THEN "local"
        ELSE IF admin /\ Registered(GlobalAdminTable, verb) THEN "global_admin"
        ELSE IF Registered(global_cmd_table, verb) THEN "global"
        ELSE ""

AllNames ==
    GlobalAdminTable \cup GlobalTable
    \cup UNION {local_command_table[c] : c \in Classes}
    \cup UNION {local_admin_command_table[c] : c \in Classes}

\* The verb that is looked up in the tables: 'go' after an exit match.
LookedUp(objs, inv, verb) ==
    IF ExitAliasHits(objs, inv, verb) # {} THEN "go" ELSE verb

\* A request that reached the command handler and came back from it.
Answered(l) == l.op = "send" /\ l.raised = ""

Huh(tr) == \E k \in 1..Len(tr) : tr[k].ev = "emit" /\ tr[k].msg = "Huh?"

AsTyped(line) ==
    IF Len(line.words) = 0 THEN line.verb
    ELSE line.verb \o " " \o Join(Flatten(line.words))

----------------------------------------------------------------------------
\* C5: move_to runs the before-leave hook on the old location, the
\* before-enter hook on the destination, the change of location_id, the
\* save, the after-leave hook on the old location, the after-enter hook on
\* the destination and, last, 'look' as the mover; the before-hooks see the
\* mover in the old location and the after-hooks see it in the destination.
C5_MoveOrder ==
    [][MoveCompleted(trace') =>
        LET m == trace'[FirstEv(trace', "move_to")].id
            dest == trace'[FirstEv(trace', "move_to")].loc
            old == objects[m].location_id
            H == MoveSteps(trace')
        IN  /\ Len(H) = 6
            /\ Step(H[1], "before_object_leaves_event", old, old)
            /\ Step(H[2], "before_object_enters_event", dest, old)
            /\ Step(H[3], "save", m, dest)
            /\ Step(H[4], "after_object_leaves_event", old, dest)
            /\ Step(H[5], "after_object_enters_event", dest, dest)
            /\ H[6].ev = "input" /\ H[6].id = m /\ H[6].msg = "look"
    ]_vars

C7_FirstTableWins ==
    [][(Answered(last') /\ last'.inv \in DOMAIN objects) =>
        \A verb \in {Lower(LookedUp(objects, last'.inv, last'.line.verb))} :
        \A first \in {FirstTable(objects, last'.inv, verb)} :
            first # "" =>
               /\ \E n \in AllNames :
                     /\ n = verb \/ verb \in CmdAliases(n)
                     /\ last'.ret = first \o ":" \o n
               /\ \E k \in 1..Len(trace') :
                     /\ Step(trace'[k], "exec", last'.inv, 0)
                     /\ trace'[k].msg = last'.ret
                     /\ \A j \in 1..(k - 1) : trace'[j].ev # "exec"
    ]_vars

\* A player typed 'look' where the room's table and the global table both
\* register it, and the room's definition ran.
C7_LocalLookRan ==
    /\ Answered(last)
    /\ last.inv \in DOMAIN objects
    /\ objects[last.inv].cls = "player"
    /\ Lower(last.line.verb) = "look"
    /\ Registered(GlobalTable, "look")
    /\ last.ret = "local:look"

\* C8: whatever an invoker that is not an admin types, no definition of a
\* location's admin table or of the global admin table is executed for it.
C8_NoAdminDefForNonAdmin ==
    [][\A k \in 1..Len(trace') :
          (/\ trace'[k].ev = "exec"
           /\ trace'[k].id \in DOMAIN objects
           /\ objects[trace'[k].id].cls # "admin")
          => LET loc == objects[trace'[k].id].location_id
             IN  \/ \E n \in GlobalTable : trace'[k].msg = "global:" \o n
                 \/ /\ loc \in DOMAIN objects
                    /\ \E n \in local_command_table[objects[loc].cls] :
                          trace'[k].msg = "local:" \o n
    ]_vars

\* A player typed a verb that only admin tables register and got no match.
C8_PlayerTypedAdminVerb ==
    /\ Answered(last)
    /\ last.inv \in DOMAIN objects
    /\ objects[last.inv].cls = "player"
    /\ objects[last.inv].location_id \in DOMAIN objects
    /\ Registered(GlobalAdminTable, last.line.verb)
    /\ Registered(local_admin_command_table[objects[objects[last.inv].location_id].cls],
                  last.line.verb)
    /\ last.ret = ""

\* C9: in a handle_input that returns, when the invoker has a location
\* whose contents hold an exit with an alias equal, case-insensitively, to
\* the verb, the command dispatched is 'go' with the single argument
\* '#<id>' of the first such exit in the order of the contents; when the
\* invoker has no location the command is dispatched as it was typed.
C9_ExitRewrite ==
    [][(Answered(last') /\ last'.inv \in DOMAIN objects) =>
        LET inv == last'.inv
            loc == objects[inv].location_id
            hits == ExitAliasHits(objects, inv, last'.line.verb)
            pos(e) == CHOOSE p \in 1..Len(order) : order[p] = e
            first == CHOOSE e \in hits : \A f \in hits : pos(e) <= pos(f)
        IN  /\ (loc # 0 /\ hits # {}) =>
                  /\ Len(trace') >= 2
                  /\ Step(trace'[2], "dispatch", inv, 0)
                  /\ trace'[2].msg = "go " \o RefOf(first)
            /\ loc = 0 =>
                  /\ Len(trace') >= 2
                  /\ Step(trace'[2], "dispatch", inv, 0)
                  /\ trace'[2].msg = AsTyped(last'.line)
    ]_vars

\* Two exits of the room share the alias typed, and the one that comes
\* first in the contents has the higher id.
C9_RewrittenToFirstExit ==
    /\ last.op = "send"
    /\ Lower(last.line.verb) = "north"
    /\ Len(trace) >= 2
    /\ trace[2].ev = "dispatch"
    /\ trace[2].msg = "go #6"
    /\ {4, 6} \subseteq DOMAIN objects

----------------------------------------------------------------------------
\* C11: when a matched command ends in a CommandError, the error path sends
\* the invoker the message of the error and does nothing else: no critical
\* notice, no logger.error and no log.err.
C11_CommandErrorMessageOnly ==
    \A k \in 1..Len(trace) :
        (trace[k].ev = "failure" /\ trace[k].msg = "CommandError") =>
            /\ k + 3 <= Len(trace)
            /\ trace[k + 1].ev = "failure.value"
            /\ trace[k + 2] = Ev("emit", trace[k].id, trace[k + 1].msg, 0)
            /\ trace[k + 3] = Ev("handled", trace[k].id, "CommandError", 0)

\* '@teleport' without arguments, typed by the admin, has ended in its
\* CommandError.
C11_TeleportWithoutArguments ==
    /\ Answered(last)
    /\ last.line.verb = "@teleport"
    /\ \E k \in 1..Len(trace) :
          /\ trace[k] = Ev("failure", last.inv, "CommandError", 0)
          /\ trace[k + 1].msg = "Teleport what to where?"

\* C12: every failure of a matched command that is not a CommandError sends
\* the invoker the critical notice and the diagnostic detail, and that same
\* failure reaches log.err.
C12_CriticalNoticeAndLog ==
    \A k \in 1..Len(trace) :
        (trace[k].ev = "failure" /\ trace[k].msg # "CommandError") =>
            /\ \E j \in k..Len(trace) :
                  trace[j] = Ev("emit", trace[k].id, CriticalNotice, 0)
            /\ \E j \in k..Len(trace) :
                  trace[j] = Ev("log.err", trace[k].id, trace[k].msg, 0)

\* The request ran a staff command of the global admin table.
StaffExec(tr) ==
    /\ FirstEv(tr, "exec") # 0
    /\ \E v \in GlobalAdminTable : tr[FirstEv(tr, "exec")].msg = "global_admin:" \o v

\* Index of the last event of that kind, 0 when there is none.
LastEv(tr, ev) ==
    IF \E k \in 1..Len(tr) : tr[k].ev = ev
    THEN CHOOSE k \in 1..Len(tr) :
             tr[k].ev = ev /\ \A j \in (k+1)..Len(tr) : tr[j].ev # ev
    ELSE 0

\* The command of the request ended in a CommandError: the commands that a
\* command runs inside itself are handled before it.
EndedInCommandError(tr) ==
    /\ LastEv(tr, "handled") # 0
    /\ tr[LastEv(tr, "handled")].msg = "CommandError"

\* C13: an execution of a staff command (@dig, @create, @teleport,
\* @describe, @name, @zone, @zmo, @parent, @alias, @destroy, @open, @unlink,
\* @link, @set) that ends in a CommandError leaves the cache, the database
\* and the id counter as they were.
C13_CommandErrorLeavesStore ==
    [][(Answered(last') /\ StaffExec(trace') /\ EndedInCommandError(trace')) =>
          /\ objects' = objects
          /\ db' = db
          /\ next_dbref' = next_dbref]_vars

\* '@set #3=colour:red' has ended in 'Invalid JSON value.' after an earlier
\* request changed the store.
C13_InvalidJsonAfterChange ==
    /\ Answered(last)
    /\ last.line = Line("@set", << <<"#3", "=", "colour", ":", "red">> >>)
    /\ StaffExec(trace)
    /\ EndedInCommandError(trace)
    /\ objects # StaffWorld
    /\ 3 \in DOMAIN objects

\* The line names, as '#<id>', an object that is not in the store.
RefersToMissing(line, objs) ==
    \E k \in 1..Len(Flatten(line.words)) :
        /\ IsRef(Flatten(line.words)[k])
        /\ IdOfRef(Flatten(line.words)[k]) \notin DOMAIN objs

\* The critical notice was sent in the request.
CriticalSent(tr) == \E k \in 1..Len(tr) : tr[k].ev = "emit" /\ tr[k].msg = CriticalNotice

\* C14: a staff command whose arguments name an id that is not in the store
\* ends in a CommandError, with the message of the error sent to the invoker
\* and no critical notice.
C14_MissingIdIsCommandError ==
    [][(Answered(last') /\ StaffExec(trace') /\ RefersToMissing(last'.line, objects)) =>
          /\ EndedInCommandError(trace')
          /\ ~CriticalSent(trace')]_vars

\* The objects that the alias and name matching of a search by inv looks
\* at: the contents of its location and its own contents.
Searched(objs, inv) ==
    {i \in DOMAIN objs :
        \/ objs[i].location_id = inv
        \/ objs[inv].location_id # 0 /\ objs[i].location_id = objs[inv].location_id}

\* The object's alias or name matches the text.
Matches(o, desc) == AliasMatches(o, desc) \/ PartialRatio(desc, o.name) > 50

\* A search by a non-admin for '#<T.id>', T an object of the store that is
\* neither where the invoker is nor the invoker's location, has returned.
HiddenIdSearch(l, objs) ==
    /\ l.op = "search" /\ l.raised = ""
    /\ ~is_admin(objs[l.inv])
    /\ IsRef(l.line.verb)
    /\ IdOfRef(l.line.verb) \in DOMAIN objs
    /\ objs[IdOfRef(l.line.verb)].location_id # objs[l.inv].location_id
    /\ IdOfRef(l.line.verb) # objs[l.inv].location_id

\* C15 as stated: such a search returns no match, whatever the names and
\* aliases of the objects of the world.
C15_HiddenIdNoMatch ==
    HiddenIdSearch(last, objects) => trace[1].loc = 0

\* C15 amended: the id lookup of such a search finds nothing and the search
\* goes on with the text '#<id>': it returns no match exactly when no object
\* in the invoker's location or carried by the invoker matches the text by
\* alias or by name, and otherwise one of the objects that do.
C15_HiddenIdFallsThrough ==
    HiddenIdSearch(last, objects) =>
        LET hits == {i \in Searched(objects, last.inv) :
                        Matches(objects[i], last.line.verb)}
        IN  IF hits = {} THEN trace[1].loc = 0 ELSE trace[1].loc \in hits

\* The player, in the first room, has searched for '#4' while object 4 was
\* at no place and object 6, in the room, had the alias '#4': the search
\* returned object 6.
C15_AliasedNeighbourFound ==
    /\ HiddenIdSearch(last, objects)
    /\ last.inv = 5 /\ last.line.verb = "#4"
    /\ objects[4].location_id = 0
    /\ objects[4].aliases = <<>>
    /\ objects[6].location_id = 1
    /\ trace[1].loc = 6

\* The collection a _find_name_or_alias_match call looked at.
Collection(objs, l) == {i \in DOMAIN objs : objs[i].location_id = l.inv}

\* C16: when an object of the searched collection has an alias equal to the
\* text, case-insensitively, _find_name_or_alias_match returns an object of
\* the collection with such an alias, whatever the name scores and the
\* iteration order.
C16_AliasOutranksFuzzy ==
    (last.op = "match" /\ \E i \in Collection(objects, last) :
                             AliasMatches(objects[i], last.line.verb)) =>
        /\ trace[1].loc \in Collection(objects, last)
        /\ AliasMatches(objects[trace[1].loc], last.line.verb)

\* The contents of the first room were matched against 'north': object 4,
\* named 'north' and without alias, came first in the iteration, and
\* object 6, with the alias 'North', was returned.
C16_AliasAfterExactName ==
    /\ last.op = "match" /\ last.inv = 1 /\ last.line.verb = "north"
    /\ order = Identity
    /\ objects[4].location_id = 1 /\ objects[4].name = "north"
    /\ objects[4].aliases = <<>>
    /\ objects[6].location_id = 1 /\ objects[6].aliases = <<"North">>
    /\ trace[1].loc = 6

\* C17: in every state that staff commands reach, no exit has a
\* destination that is itself an exit.
C17_NoExitLeadsToExit ==
    \A i \in DOMAIN objects :
        (base_type(objects[i]) = "exit" /\ objects[i].destination_id \in DOMAIN objects)
            => base_type(objects[objects[i].destination_id]) # "exit"

\* The admin's '@teleport #t=#d', t and d in the store, with t a room or
\* t = d.
RoomOrSelfTeleport(l, objs) ==
    /\ l.op = "send" /\ l.raised = ""
    /\ l.inv \in DOMAIN objs /\ is_admin(objs[l.inv])
    /\ l.line.verb \in {"@teleport", "@tel"}
    /\ Len(l.line.words) = 1 /\ Len(l.line.words[1]) = 3
    /\ IsRef(l.line.words[1][1]) /\ l.line.words[1][2] = "=" /\ IsRef(l.line.words[1][3])
    /\ IdOfRef(l.line.words[1][1]) \in DOMAIN objs
    /\ IdOfRef(l.line.words[1][3]) \in DOMAIN objs
    /\ \/ IsRoomObject(objs[IdOfRef(l.line.words[1][1])])
       \/ l.line.words[1][1] = l.line.words[1][3]

\* C18: @teleport of a room, or of an object into itself, ends in a
\* CommandError before move_to is called: no hook runs, nothing is saved
\* and no object or document changes.
C18_TeleportRejectedBeforeMove ==
    [][(StaffExec(trace') /\ RoomOrSelfTeleport(last', objects)) =>
          /\ EndedInCommandError(trace')
          /\ \A k \in 1..Len(trace') :
                trace'[k].ev \notin (MoveEvents \ {"input"}) \cup {"move_to"}
          /\ objects' = objects
          /\ db' = db]_vars

\* '@teleport #1=#2', the first room into the admin, was rejected.
C18_RoomTeleportRejected ==
    /\ StaffExec(trace)
    /\ RoomOrSelfTeleport(last, objects)
    /\ last.line.words = << <<"#1", "=", "#2">> >>
    /\ \E k \in 1..Len(trace) :
          trace[k] = Ev("failure.value", 2, "Rooms cannot be teleported", 0)

\* C19: in every state that create_object, move_to and the staff commands
\* reach, no object whose base type is room has a location_id.
C19_NoRoomHasLocation ==
    \A i \in DOMAIN objects :
        base_type(objects[i]) = "room" =>
            (objects[i].location_id = 0 /\ db[i].location_id = 0)

\* The request ran the @parent command of the global admin table.
ParentExec(tr) ==
    FirstEv(tr, "exec") # 0 /\ tr[FirstEv(tr, "exec")].msg = "global_admin:@parent"

\* The parent the line of an '@parent #t=<parent>' request names.
ParentNamed(l) == substitute_aliased_parent(Join(SubSeq(l.line.words[1], 3, Len(l.line.words[1]))))

\* The admin's '@parent #t=<parent>' with t in the store.
ParentRequest(l, objs) ==
    /\ l.op = "send" /\ l.raised = ""
    /\ Len(l.line.words) = 1 /\ Len(l.line.words[1]) >= 3
    /\ IsRef(l.line.words[1][1]) /\ l.line.words[1][2] = "="
    /\ IdOfRef(l.line.words[1][1]) \in DOMAIN objs

\* C20: @parent asks the parent loader before it writes: with a parent the
\* loader cannot resolve the command ends in a CommandError and the cached
\* objects and the documents stay as they were; with a parent it resolves,
\* that parent is written and saved and the object is then loaded again
\* from its document.
C20_ParentValidatedBeforeCommit ==
    [][(ParentExec(trace') /\ ParentRequest(last', objects)) =>
          \A t \in {IdOfRef(last'.line.words[1][1])} :
          \A p \in {ParentNamed(last')} :
             IF load_parent_ok(p)
             THEN /\ db' = [db EXCEPT ![t].parent = p]
                  /\ objects' = [objects EXCEPT ![t] = Instantiate(db'[t])]
                  /\ \E j, k \in 1..Len(trace') :
                        /\ j < k
                        /\ trace'[j].ev = "save" /\ trace'[j].id = t
                        /\ trace'[k].ev = "load_object" /\ trace'[k].id = t
             ELSE /\ EndedInCommandError(trace')
                  /\ objects' = objects
                  /\ db' = db
                  /\ \A k \in 1..Len(trace') :
                        trace'[k].ev \notin {"save", "load_object"}]_vars

\* '@parent #3=bogus' was rejected after an earlier '@parent #3=thing' was
\* carried out.
C20_BogusParentAfterThing ==
    /\ ParentExec(trace)
    /\ ParentRequest(last, objects)
    /\ ParentNamed(last) = "bogus"
    /\ EndedInCommandError(trace)
    /\ objects[3].parent = ThingParent
    /\ objects[3].cls = ThingParent

----------------------------------------------------------------------------
\* The fields of an object the claims about save and load name.
PersistedFields(o) ==
    [name |-> o.name, parent |-> o.parent, location_id |-> o.location_id,
     attributes |-> o.attributes]

\* C21: create_object with a parent that cannot be resolved fails with
\* InvalidParent and leaves the store as it was: no document is written,
\* nothing is added to the cache and the next-id counter is not advanced. A
\* successful create_object receives the counter's value and no other
\* operation moves the counter, so the next successful create receives the id
\* the failed call would have used.
C21_FailedCreateLeavesStore ==
    [][IF last'.op = "create_object"
       THEN IF load_parent_ok(last'.line.verb)
            THEN /\ last'.raised = ""
                 /\ issued' = Append(issued, next_dbref)
                 /\ next_dbref \in DOMAIN objects'
            ELSE /\ last'.raised = "InvalidParent"
                 /\ objects' = objects
                 /\ db' = db
                 /\ next_dbref' = next_dbref
                 /\ issued' = issued
       ELSE next_dbref' = next_dbref]_vars

\* A create_object with parent 'bogus' failed after object 3 was created.
C21_BogusParentAfterCreate ==
    /\ last.op = "create_object"
    /\ last.line.verb = "bogus"
    /\ last.raised = "InvalidParent"
    /\ issued = <<3>>
    /\ next_dbref = 4

\* C22: get_object(id) returns the live instance exactly when id is a key of
\* the cache and fails with InvalidObjectId otherwise; a destroy_object that
\* ends normally takes the object's id out of the cache, and an id that was
\* assigned and is not in the cache is not in the cache after any operation,
\* so get_object of a destroyed object's id fails in every later state.
C22_DestroyedStaysGone ==
    [][/\ last'.op = "get_object" =>
             /\ get_object(objects, last'.inv).err = last'.raised
             /\ last'.raised \in {"", "InvalidObjectId"}
             /\ last'.raised = "" <=> last'.inv \in DOMAIN objects
             /\ last'.raised = "" => HasEv(trace', "get_object", last'.inv)
       /\ (last'.op = "destroy_object" /\ last'.raised = "") =>
             last'.inv \notin DOMAIN objects'
       /\ \A id \in StoreIds :
             (id < next_dbref /\ id \notin DOMAIN objects) =>
                get_object(objects', id).err = "InvalidObjectId"]_vars

\* Object 3 was created and destroyed, and get_object(3) then failed.
C22_GetAfterDestroy ==
    /\ last.op = "get_object"
    /\ last.inv = 3
    /\ last.raised = "InvalidObjectId"
    /\ issued = <<3>>

C24_ResolvableDocumentsLoaded ==
    last.op = "startup" =>
       \A id \in DOMAIN db : load_parent_ok(db[id].parent) => id \in DOMAIN objects

\* C25: a startup on a database without documents creates exactly one
\* object, a room with id 1, before it loads the documents; afterwards the
\* cache holds exactly that room and the next id is 2. A startup on a
\* database with documents creates no object and writes no document.
C25_FirstRoomOnEmptyStore ==
    [][last'.op = "startup" =>
          IF DOMAIN db = {}
          THEN /\ last'.raised = ""
               /\ Created(trace') = <<1>>
               /\ FirstEv(trace', "create_object") < FirstEv(trace', "load_object")
               /\ DOMAIN objects' = {1}
               /\ IsRoomObject(objects'[1])
               /\ DOMAIN db' = {1}
               /\ next_dbref' = 2
          ELSE /\ Created(trace') = <<>>
               /\ db' = db]_vars

\* The last document was destroyed and the next process started on the
\* empty database.
C25_StartedOnEmptiedStore ==
    /\ last.op = "startup"
    /\ nops >= 3
    /\ issued = <<1>>
    /\ DOMAIN objects = {1}
    /\ next_dbref = 2

\* C26: no id is assigned by create_object twice over the lifetime of the
\* database, destroys and new processes included.
C26_NoIdAssignedTwice ==
    \A i, j \in 1..Len(issued) : i # j => issued[i] # issued[j]

\* An '@open <alias> <name>=#<id>' request.
OpenWithDestination(l) ==
    /\ l.op = "send"
    /\ l.line.verb = "@open"
    /\ Len(l.line.words) = 2
    /\ Len(l.line.words[2]) = 3

OpenAlias(l) == l.line.words[1][1]

OpenDestination(l) == IdOfRef(l.line.words[2][3])

\* The request is '@open <alias> <name>=#<id of a room>' by an admin who is
\* in a room.
OpenToRoom(l, objs) ==
    /\ OpenWithDestination(l)
    /\ l.inv \in DOMAIN objs
    /\ is_admin(objs[l.inv])
    /\ objs[l.inv].location_id \in DOMAIN objs
    /\ IsRoomObject(objs[objs[l.inv].location_id])
    /\ OpenDestination(l) \in DOMAIN objs
    /\ IsRoomObject(objs[OpenDestination(l)])

\* The request before this one was such an @open that created its exit, and
\* this one is the same invoker typing the alias.
AliasTypedAfterOpen ==
    /\ OpenWithDestination(last)
    /\ last.raised = ""
    /\ Len(Created(trace)) = 1
    /\ last'.op = "send"
    /\ last'.inv = last.inv
    /\ last'.line = Line(OpenAlias(last), <<>>)

\* The position of an object in the iteration order of the cache.
Position(e) == CHOOSE p \in 1..Len(order) : order[p] = e

\* The @open of a request created an exit in the invoker's room with the
\* alias and the destination named.
OpenedAsNamed ==
    OpenToRoom(last', objects) =>
       \A e \in {next_dbref} :
          /\ last'.raised = ""
          /\ Created(trace') = <<e>>
          /\ DOMAIN objects' = DOMAIN objects \cup {e}
          /\ IsExitObject(objects'[e])
          /\ objects'[e].location_id = objects[last'.inv].location_id
          /\ objects'[e].aliases = <<OpenAlias(last')>>
          /\ objects'[e].destination_id = OpenDestination(last')
          /\ db'[e] = Odata(objects'[e])

\* C27 as stated: after an admin in room A executes
\* '@open north Door=#<id of room B>' the store holds a new exit located in
\* A with alias 'north' and destination B, and the same invoker's next input
\* 'north' is dispatched as 'go' with the sole argument '#<that exit's id>'.
C27_AliasGoesThroughNewExit ==
    [][/\ OpenedAsNamed
       /\ AliasTypedAfterOpen =>
             /\ Len(trace') >= 2
             /\ Step(trace'[2], "dispatch", last'.inv, 0)
             /\ trace'[2].msg = "go " \o RefOf(Created(trace)[1])]_vars

\* C27, amended: after an admin in room A executes
\* '@open north Door=#<id of room B>' the store holds a new exit located in
\* A with alias 'north' and destination B, and the same invoker's next input
\* 'north' is dispatched as 'go' with the sole argument '#<id>' of the first
\* exit in A's contents that has the alias 'north'; that is the new exit
\* when no other exit with the alias comes before it in the contents.
C27_AliasGoesThroughFirstExit ==
    [][/\ OpenedAsNamed
       /\ AliasTypedAfterOpen =>
             \A new \in {Created(trace)[1]} :
             \A hits \in {ExitAliasHits(objects, last'.inv, OpenAlias(last))} :
                /\ new \in hits
                /\ Len(trace') >= 2
                /\ Step(trace'[2], "dispatch", last'.inv, 0)
                /\ \E first \in hits :
                      /\ \A f \in hits : Position(first) <= Position(f)
                      /\ trace'[2].msg = "go " \o RefOf(first)
                /\ (\A f \in hits : Position(new) <= Position(f)) =>
                      trace'[2].msg = "go " \o RefOf(new)]_vars

\* The admin opened exit 4 'north' to room 3 in a room without other exits
\* and typed 'north', which was dispatched as 'go #4'.
C27_WalkedThroughNewExit ==
    /\ last.op = "send"
    /\ last.line = Line("north", <<>>)
    /\ issued = <<4>>
    /\ Len(trace) >= 2
    /\ trace[2].ev = "dispatch"
    /\ trace[2].msg = "go #4"
    /\ objects[4].destination_id = 3

\* The request is '@zmo #<id>/<switch>' by an admin for an object of the
\* store.
ZmoRequest(l, objs, switch) ==
    /\ l.op = "send"
    /\ l.line.verb = "@zmo"
    /\ l.line.switches = {switch}
    /\ Len(l.line.words) = 1
    /\ Len(l.line.words[1]) = 1
    /\ IsRef(l.line.words[1][1])
    /\ IdOfRef(l.line.words[1][1]) \in DOMAIN objs
    /\ l.inv \in DOMAIN objs
    /\ is_admin(objs[l.inv])

\* The messages the request sent to its invoker.
Told(tr, inv) ==
    {tr[k].msg : k \in {j \in 1..Len(tr) : tr[j].ev = "emit" /\ tr[j].id = inv}}

C29_EmptyClearsZone ==
    [][ZmoRequest(last', objects, "empty") =>
          \A zmo \in {IdOfRef(last'.line.words[1][1])} :
          \A members \in {ZoneMembers(objects, zmo)} :
             /\ last'.raised = ""
             /\ DOMAIN objects' = DOMAIN objects
             /\ DOMAIN db' = DOMAIN db
             /\ \A m \in members :
                   /\ objects'[m] = [objects[m] EXCEPT !.zone_id = 0]
                   /\ db'[m] = Odata(objects'[m])
                   /\ HasEv(trace', "save", m)
             /\ \A x \in DOMAIN objects \ members : objects'[x] = objects[x]
             /\ find_objects_in_zone(objects', zmo) = <<>>
             /\ Told(trace', last'.inv) =
                   {"Cleared " \o Decimal(Cardinality(members))
                       \o " object(s) from ZMO"}]_vars

\* The admin emptied the zone of room 1 when the exit and the admin were its
\* members.
C29_EmptiedZoneOfTwo ==
    /\ last.op = "send"
    /\ last.line.verb = "@zmo"
    /\ last.line.switches = {"empty"}
    /\ "Cleared 2 object(s) from ZMO" \in Told(trace, 2)
    /\ DOMAIN objects = {1, 2, 3}
    /\ objects[2].zone_id = 0
    /\ objects[3].zone_id = 0

\* The session hooks object id has run, oldest first.
HooksOf(hs, id) == SelectSeq(hs, LAMBDA e : e.id = id)

\* C30: for each object, the session-connect hook runs only in a step that
\* takes the number of its sessions from 0 to 1 and the session-disconnect
\* hook only in a step that takes it from 1 to 0; a session that connects or
\* disconnects while another one stays attached runs neither, and the hooks
\* an object has run alternate, the first being the connect hook.
C30_SessionHooksOnEdges ==
    [][/\ Len(hooks') <= Len(hooks) + 1
       /\ \A k \in (Len(hooks) + 1)..Len(hooks') :
             \A id \in {hooks'[k].id} :
                /\ hooks'[k].ev = "after_session_connect_event" =>
                      sessions[id] = 0 /\ sessions'[id] = 1
                /\ hooks'[k].ev = "after_session_disconnect_event" =>
                      sessions[id] = 1 /\ sessions'[id] = 0
       /\ \A id \in SessionIds :
             /\ (sessions[id] >= 1 /\ sessions'[id] >= 1) =>
                   HooksOf(hooks', id) = HooksOf(hooks, id)
             /\ \A h \in {HooksOf(hooks', id)} :
                   \A k \in 1..Len(h) :
                      h[k].ev = IF k % 2 = 1 THEN "after_session_connect_event"
                                ELSE "after_session_disconnect_event"]_vars

\* Two sessions connected to the player and both disconnected: the player
\* ran the connect hook once and then the disconnect hook once.
C30_TwoSessionsOneEdgeEach ==
    /\ nops = 4
    /\ last.op = "session_disconnect"
    /\ sessions[3] = 0
    /\ 3 \in DOMAIN objects
    /\ Len(hooks) = 2
    /\ hooks[1] = Ev("after_session_connect_event", 3, "", 0)
    /\ hooks[2] = Ev("after_session_disconnect_event", 3, "", 0)

\* The deliveries that follow the event at position k of a record, up to
\* the next event that is no delivery.
RECURSIVE DeliveriesAfter(_, _)
DeliveriesAfter(tr, k) ==
    IF k + 1 > Len(tr) \/ tr[k + 1].ev # "deliver" THEN <<>>
    ELSE <<tr[k + 1]>> \o DeliveriesAfter(tr, k + 1)

\* C31: a line emitted with emit_to on object X is carried with X's id and
\* is delivered once to every session that controls X at that moment and
\* to no session of another object; every delivery comes from such an
\* emit. The 'Huh?' of a request that matched nothing is emitted on the
\* invoker. An emit on an object without sessions delivers to nobody, and
\* such a request leaves the store and the sessions as they were.
C31_EmitReachesOwnSessions ==
    [][last'.op = "send" =>
          /\ \A k \in 1..Len(trace') :
                /\ trace'[k].ev = "emit" =>
                      DeliveriesAfter(trace', k) =
                         [j \in 1..sessions[trace'[k].id] |->
                             Ev("deliver", trace'[k].id, trace'[k].msg, j)]
                /\ trace'[k].ev = "deliver" =>
                      /\ k > 1
                      /\ trace'[k - 1].ev \in {"emit", "deliver"}
                      /\ trace'[k - 1].id = trace'[k].id
                      /\ trace'[k - 1].msg = trace'[k].msg
          /\ (last'.raised = "" /\ last'.ret = "") =>
                /\ \E k \in 1..Len(trace') : trace'[k] = Ev("emit", last'.inv, "Huh?", 0)
                /\ \A k \in 1..Len(trace') :
                      trace'[k].ev = "deliver" => trace'[k].id = last'.inv
                /\ objects' = objects
                /\ db' = db
          /\ sessions' = sessions
          /\ hooks' = hooks]_vars

\* The player, on two sessions while the admin is on one, typed a word that
\* is no command: 'Huh?' went to the player's two sessions and to no other.
C31_HuhToBothSessions ==
    /\ last.op = "send"
    /\ last.inv = 3
    /\ last.line.verb = "xyzzy"
    /\ sessions[3] = 2
    /\ sessions[2] = 1
    /\ Len(SelectSeq(trace, LAMBDA e : e.ev = "deliver")) = 2
    /\ \A k \in 1..Len(trace) : trace[k].ev = "deliver" => trace[k].id = 3

-----------------------------------------------------------------------------
\* C32

-----------------------------------------------------------------------------
\* C33

\* What the factory does at a connection event, but for the size of the delay.
Reconnects(f, g) ==
    /\ g.state # "stopped"
    /\ (f.state \in {"connected", "connecting"} /\ g.state # "connected") =>
          /\ g.state = "waiting"
          /\ g.retries = f.retries + 1
    /\ g.state = "connected" =>
          /\ g.delay = initialDelay * Milli
          /\ g.retries = 0

-----------------------------------------------------------------------------
\* C34

\* The objects of the searched collection whose name scores above 50.
ScoredAbove50(objs, l) ==
    {i \in Collection(objs, l) : PartialRatio(l.line.verb, objs[i].name) > 50}

\* C34: when no object of the searched collection matches the text by alias,
\* _find_name_or_alias_match returns None if no name scores strictly above
\* 50, and otherwise an object whose score is above 50 and is the highest of
\* the collection, the first such object in iteration order.
C34_FirstBestFuzzyMatch ==
    (last.op = "match" /\ \A i \in Collection(objects, last) :
                             ~AliasMatches(objects[i], last.line.verb)) =>
        \A r \in {trace[1].loc} :
           /\ ScoredAbove50(objects, last) = {} => r = 0
           /\ ScoredAbove50(objects, last) # {} =>
                 /\ r \in ScoredAbove50(objects, last)
                 /\ \A j \in ScoredAbove50(objects, last) :
                       /\ PartialRatio(last.line.verb, objects[j].name)
                             <= PartialRatio(last.line.verb, objects[r].name)
                       /\ (PartialRatio(last.line.verb, objects[j].name)
                              = PartialRatio(last.line.verb, objects[r].name)) =>
                             Position(r) <= Position(j)

\* 'door' was matched against the room's contents, iterated from the highest
\* id down: thing 5 'Door' scores 75, things 4 and 3 'door' score 100 each,
\* and thing 4, the first of the two, was returned.
C34_FirstOfTwoExactNames ==
    /\ last.op = "match" /\ last.inv = 1 /\ last.line.verb = "door"
    /\ order = Reversed
    /\ objects[5].location_id = 1 /\ objects[5].name = "Door"
    /\ objects[4].name = "door"
    /\ objects[3].name = "door"
    /\ trace[1].loc = 4

-----------------------------------------------------------------------------
\* C35

\* The move_to call an emit of a request belongs to: the last one begun
\* before it.
MoveBefore(tr, k) ==
    CHOOSE m \in 1..k : /\ tr[m].ev = "move_to"
                        /\ \A j \in (m + 1)..k : tr[j].ev # "move_to"

\* C35: the arrival and departure lines of move_to go to the other occupants
\* only: 'has arrived' to objects in the destination, 'has left' to objects
\* in the origin, and never to the object that moves, whatever the origin
\* and the destination are.
C35_MoverNeverTold ==
    \A k \in 1..Len(trace) :
        (trace[k].ev = "emit" /\ trace[k].msg \in {"has arrived", "has left"}) =>
            /\ \E m \in 1..k : trace[m].ev = "move_to"
            /\ trace[k].id # trace[MoveBefore(trace, k)].id

-----------------------------------------------------------------------------
\* C36

\* C36: after any sequence of creations, moves and destructions every object
\* with a location has the id of an object of the store as its location_id,
\* so that an object destroyed while it holds others leaves no survivor
\* located in it.
C36_LocationsResolve ==
    \A i \in DOMAIN objects : ~Dangling(objects, objects[i].location_id)

-----------------------------------------------------------------------------
\* C37

\* The object n steps up the chain of locations from i, 0 past its end.
RECURSIVE LocationAbove(_, _, _)
LocationAbove(objs, i, n) ==
    IF n = 0 \/ i \notin DOMAIN objs THEN i
    ELSE LocationAbove(objs, objs[i].location_id, n - 1)

\* C37: no sequence of @teleport commands puts an object inside itself,
\* directly or through the objects that contain it.
C37_NoContainmentCycle ==
    \A i \in DOMAIN objects :
        \A n \in 1..Cardinality(DOMAIN objects) : LocationAbove(objects, i, n) # i

-----------------------------------------------------------------------------
\* C38

\* The request typed a verb that is an alias of an exit in the invoker's
\* location and that a command table registers for the invoker.
ExitAliasIsVerb(l, objs) ==
    /\ Answered(l)
    /\ l.inv \in DOMAIN objs
    /\ ExitAliasHits(objs, l.inv, l.line.verb) # {}
    /\ FirstTable(objs, l.inv, l.line.verb) # ""

\* C38: exits come before commands.  When the verb typed is an alias of an
\* exit in the invoker's location and also a registered verb, handle_input
\* dispatches 'go' with the exit's '#<id>' as the sole argument and runs the
\* 'go' command, not the command of the verb typed; when no table defines
\* 'go' for the invoker nothing is run and the input is answered as no match.
C38_ExitBeforeCommand ==
    [][ExitAliasIsVerb(last', objects) =>
          \A go \in {FirstTable(objects, last'.inv, "go")} :
             /\ \E e \in ExitAliasHits(objects, last'.inv, last'.line.verb) :
                   trace'[FirstEv(trace', "dispatch")].msg = "go " \o RefOf(e)
             /\ go # "" =>
                   /\ last'.ret = go \o ":go"
                   /\ trace'[FirstEv(trace', "exec")].msg = go \o ":go"
             /\ go = "" =>
                   /\ last'.ret = ""
                   /\ FirstEv(trace', "exec") = 0
                   /\ Huh(trace')
                   /\ objects' = objects]_vars

\* The player typed 'look' in the first room, whose exit to room B has the
\* alias 'look': the global 'go' ran and the player is in room B.
C38_LookWalkedThroughExit ==
    /\ nops = 1
    /\ last.op = "send" /\ last.inv = 5 /\ last.line.verb = "look"
    /\ objects[4].aliases = <<"look">>
    /\ last.ret = "global:go"
    /\ objects[5].location_id = 3

-----------------------------------------------------------------------------
\* C39

\* The step handled a command of the proxy for an object: its input, or the
\* event of its first session connecting or of its last one disconnecting.
CommandFor(l, sess) ==
    \/ l.op = "send"
    \/ l.op = "session_connect" /\ sess[l.inv] = 0
    \/ l.op = "session_disconnect" /\ sess[l.inv] = 1

\* C39: a SendThroughObject, NotifyFirstSessionConnectedOnObject or
\* TriggerAfterSessionDisconnectForObject command for an object that was
\* destroyed while sessions controlled it fails with InvalidObjectId at the
\* lookup: no command and no hook runs and the store stays as it was.
C39_CommandsForDestroyedObjectFail ==
    [][(CommandFor(last', sessions) /\ last'.inv \in SessionIds
          /\ last'.inv \notin DOMAIN objects) =>
          /\ last'.raised = "InvalidObjectId"
          /\ trace' = <<>>
          /\ hooks' = hooks
          /\ objects' = objects
          /\ db' = db
          /\ next_dbref' = next_dbref]_vars

\* The player was destroyed with a session on it; the session then
\* disconnected and the command for the disconnect failed at the lookup.
C39_DisconnectAfterDestroy ==
    /\ last.op = "session_disconnect" /\ last.inv = 3
    /\ last.raised = "InvalidObjectId"
    /\ 3 \notin DOMAIN objects
    /\ sessions[3] = 0
    /\ Len(hooks) = 1
    /\ hooks[1] = Ev("after_session_connect_event", 3, "", 0)

-----------------------------------------------------------------------------
\* C40

\* C40: reload_object(obj) never leaves the cache without an entry for
\* obj.id; when the re-load fails, the instance cached before is the one
\* get_object(obj.id) returns afterwards.
C40_ReloadKeepsCacheEntry ==
    [][(last'.op = "reload_object" /\ last'.inv \in DOMAIN objects) =>
          /\ last'.inv \in DOMAIN objects'
          /\ last'.raised # "" => objects'[last'.inv] = objects[last'.inv]]_vars

====
